---- MODULE Spec2Model ----
\* The settings-driven reminder scheduler of VocabAI:
\*   - the event bus          (src/bot/utils/event_manager.py, EventManager),
\*   - the reminder manager   (src/bot/services/reminder_service.py, ReminderService),
\*   - the storage readers    (src/bot/database/sqlite_db.py),
\*   - the settings endpoints (src/api/main.py) that write settings and publish events.
\*
\* Every action is one run of a coroutine between two points at which it really
\* suspends (an aiosqlite call, Queue.get() on an empty queue, gather(), awaiting a
\* task).  Awaiting a coroutine that never suspends (Queue.put() on an unbounded queue,
\* remove_user_reminder, setup_user_reminder) is part of the caller's step.
\*
\* Specifications:
\*   Spec       the program as main.py wires it: ReminderService.start(), then the web
\*              server whose settings endpoints write storage and publish events;
\*   SpecBus    the event bus alone under arbitrary clients calling start(), stop(),
\*              subscribe(), unsubscribe() and publish() in any interleaving;
\*   SpecSvc    the reminder manager under any publisher and any writer of the store;
\*   SpecDue    get_due_words_for_user over any words table and any stored target;
\*   SpecClock  the schedulers and the calls of send_reminder_to_user over a clock;
\*   SpecFire   the same over one day, with the settings endpoints.
EXTENDS Integers, Sequences, FiniteSets, TLC

\* ---------------------------------------------------------------- bounds
MaxEvents == 2      \* publish() calls of the bus clients (SpecBus)
MaxLoops  == 2      \* dispatch-loop tasks ever created
MaxSubs   == 2      \* subscriptions held at a time, over all kinds (SpecBus)
MaxWrites == 2      \* settings writes served by the API (Spec)
MaxFires  == 2      \* calls of send_reminder_to_user / get_due_words_for_user
MaxWords  == 25     \* words of a user in the words table
MaxDays   == 2      \* days the clock runs through
MaxChanges == 1     \* settings requests while the clock runs (SpecFire)

Users   == {1, 2}
LoopIds == 1..MaxLoops

\* ---------------------------------------------------------------- values
\* A reminder time as text, seen through split(':'): a sequence of fields, each
\* either text that int() accepts (its value) or text that int() rejects.
Num(v) == [isInt |-> TRUE, val |-> v]
Junk   == [isInt |-> FALSE, val |-> 0]
NoTime == <<>>                          \* None (and the empty text): falsy
T0900  == <<Num(9), Num(0)>>            \* "09:00"
T1830  == <<Num(18), Num(30)>>          \* "18:30"
T2500  == <<Num(25), Num(0)>>           \* "25:00": int() accepts, CronTrigger rejects
TJunk  == <<Junk, Junk>>                \* "ab:cd"
TShort == <<Num(9)>>                    \* "9": one field only

\* The times the API accepts (schemas.py: pattern ^([01]?[0-9]|2[0-3]):[0-5][0-9]$).
ApiTimes == {T0900, T1830}

\* The learning_preferences column of one user_settings row.
\*   absent     no row for the user
\*   null       the column is NULL or empty
\*   garbage    text that is not JSON
\*   nonobject  JSON that is not an object (a list, null, a number)
\*   object     a JSON object; enabled is review_reminder_enabled (missing = False),
\*              hasTime says whether review_reminder_time is present
Row(shape, enabled, hasTime, time) ==
    [shape |-> shape, enabled |-> enabled, hasTime |-> hasTime, time |-> time]
Absent    == Row("absent", FALSE, FALSE, NoTime)
NullPrefs == Row("null", FALSE, FALSE, NoTime)
Garbage   == Row("garbage", FALSE, FALSE, NoTime)
NonObject == Row("nonobject", FALSE, FALSE, NoTime)
Prefs(enabled, time) == Row("object", enabled, TRUE, time)
PrefsNoTime(enabled) == Row("object", enabled, FALSE, NoTime)

\* Rows a store can hold when the process starts.
InitRows ==
    { Absent, Garbage, NonObject, Prefs(TRUE, T0900), Prefs(FALSE, T1830),
      PrefsNoTime(TRUE), Prefs(TRUE, TJunk) }

\* The daily_review_target key of a learning_preferences object: an integer, missing,
\* or a value min() cannot compare with a number (a string, null).
Target(v) == [kind |-> "int", val |-> v]
MissingTarget == [kind |-> "missing", val |-> 0]
NonIntTarget == [kind |-> "nonint", val |-> 0]
\* LearningPreferences.daily_review_target of a request that does not give it.
ApiDefaultTarget == 20

\* The kinds of event that anything subscribes to, and all the kinds of EventType.
Kinds == {"user_settings_updated", "reminder_settings_changed"}
EventTypes == Kinds \cup {"user_registered", "user_deleted"}

Event(id, kind, user, enabled, time) ==
    [id |-> id, kind |-> kind, user |-> user, enabled |-> enabled, time |-> time]
\* The None that stop() puts on the queue.
NoneItem == Event(0, "None", 0, FALSE, NoTime)

JobId(u) == <<"reminder", u>>

VARIABLES
    \* EventManager
    subscribers,      \* _subscribers: kind -> sequence of callbacks
    queue,            \* _event_queue
    running,          \* _running
    processor_task,   \* _processor_task: 0 (None) or the id of a dispatch-loop task
    loops,            \* the dispatch-loop tasks: position, event in hand, callback tasks
    stopping,         \* stop() calls suspended on `await self._processor_task`
    \* storage, ReminderService, API
    db,               \* user_settings: user -> row
    active_jobs,      \* ReminderService.active_jobs: user -> job id
    jobs,             \* the scheduler's job store
    installed,        \* per user, the time of the latest add_job (history)
    svc,              \* position of ReminderService.start()
    recon,            \* what get_all_users_with_reminders returned to the pass
    reqs,             \* settings requests that have written and not yet published
    \* counters and history
    nPublished,       \* events enqueued so far; an event's id is its arrival number
    nLoops,           \* dispatch-loop tasks created so far
    nWrites,          \* settings writes so far
    dispatched,       \* events handed to _handle_event, in order: id, kind, callbacks found
    ran,              \* <<event id, callback index, result>> of finished callbacks
    \* time, the words table, the firing of jobs
    clock,            \* wall-clock time (Asia/Taipei), in minutes since day 0, 00:00
    vocabulary,       \* words table: user -> the user's words in the order the query returns them
    daily_target,     \* the daily_review_target key of learning_preferences, per user
    legacy_next,      \* next run time of the job of setup_scheduler; -1 before it is added
    fires,            \* send_reminder_to_user calls in flight
    nFires,           \* send_reminder_to_user calls started so far
    runs,             \* history: what the scheduler did with each due run time of a job
    picked,           \* history: what get_due_words_for_user returned, per call
    sends,            \* history: send attempts (bot.send_message), per user and day
    \* clients of the bus
    constructed       \* Event objects a client has constructed and not yet published

busVars == <<subscribers, queue, running, processor_task, loops, stopping>>
svcVars == <<db, active_jobs, jobs, installed, svc, recon, reqs>>
histVars == <<nPublished, nLoops, nWrites, dispatched, ran>>
fireVars ==
    <<clock, vocabulary, daily_target, legacy_next, fires, nFires, runs, picked, sends,
      constructed>>
vars == <<busVars, svcVars, histVars, fireVars>>

\* ---------------------------------------------------------------- scheduler and registry
\* The registry as the operations below see it: active_jobs, the job store, and the
\* history of installed times.
Reg(aj, js, last) == [aj |-> aj, js |-> js, last |-> last]

NoJobs == [u \in {} |-> JobId(u)]
NeverInstalled == [u \in Users |-> <<>>]

\* Wall-clock time: minutes since 00:00 of day 0; a day has 1440 of them.
DayOf(t) == t \div 1440
TimeOfDay(hour, minute) == hour * 60 + minute
\* The minutes of a day the clock visits: 00:00, 09:00, 09:04, 09:10, 18:30.  The clock
\* reads t at any moment of minute t, so at a moment past the start of the minute.
DayInstants == {0, 540, 544, 550, 1110}
Instants == {d * 1440 + i : d \in 0..(MaxDays - 1), i \in DayInstants}

\* The first fire time of a trigger created at now: the next start of minute
\* hour:minute after now.
NextFire(now, hour, minute) ==
    IF now % 1440 < TimeOfDay(hour, minute)
    THEN DayOf(now) * 1440 + TimeOfDay(hour, minute)
    ELSE (DayOf(now) + 1) * 1440 + TimeOfDay(hour, minute)
\* The latest occurrence of hour:minute at or before now.
LastFire(now, hour, minute) ==
    IF now % 1440 >= TimeOfDay(hour, minute)
    THEN DayOf(now) * 1440 + TimeOfDay(hour, minute)
    ELSE (DayOf(now) - 1) * 1440 + TimeOfDay(hour, minute)

\* A job of the scheduler: its id, the hour and minute of its CronTrigger, and its
\* next_run_time, computed when the job is added.
Job(id, hour, minute) ==
    [id |-> id, hour |-> hour, minute |-> minute, next |-> NextFire(clock, hour, minute)]
JobsOf(js, u) == {j \in js : j.id = JobId(u)}

\* scheduler.remove_job(job_id): raises JobLookupError when the store has no such job.
RemoveJob(js, id) ==
    IF \E j \in js : j.id = id
    THEN [ok |-> TRUE, js |-> {j \in js : j.id # id}]
    ELSE [ok |-> FALSE, js |-> js]

\* An add_job that names the job itself instead of taking the caller's id.
AddJobOwnId(js, job) == js \cup {[job EXCEPT !.id = Append(job.id, Cardinality(js))]}

\* scheduler.add_job(..., id=job_id, replace_existing=True).
AddJob(js, job) == {j \in js : j.id # job.id} \cup {job}

\* hour, minute = map(int, reminder_time.split(':')): two fields, both integers.
TimeParses(t) == Len(t) = 2 /\ t[1].isInt /\ t[2].isInt
\* CronTrigger(hour=..., minute=...) raises ValueError outside 0..23 / 0..59.
CronAccepts(hour, minute) == hour \in 0..23 /\ minute \in 0..59

\* remove_user_reminder: nothing for a user without an entry; an exception of
\* remove_job is caught before the entry is deleted.
RemoveUserReminder(reg, u) ==
    IF u \notin DOMAIN reg.aj THEN reg
    ELSE LET r == RemoveJob(reg.js, reg.aj[u]) IN
         IF ~r.ok THEN reg
         ELSE [reg EXCEPT !.aj = [x \in DOMAIN reg.aj \ {u} |-> reg.aj[x]],
                          !.js = r.js]

\* A setup_user_reminder that adds the trigger without removing the one in place
\* and without replace_existing.
SetupKeepingOld(reg, u, t) ==
    IF ~TimeParses(t) THEN reg
    ELSE IF ~CronAccepts(t[1].val, t[2].val) THEN reg
    ELSE [aj   |-> [x \in DOMAIN reg.aj \cup {u} |->
                        IF x = u THEN JobId(u) ELSE reg.aj[x]],
          js   |-> reg.js \cup {Job(JobId(u), t[1].val, t[2].val)},
          last |-> [reg.last EXCEPT ![u] = <<t[1].val, t[2].val>>]]

\* A setup_user_reminder that records the entry before it parses the time.
SetupRecordingFirst(reg, u, t) ==
    LET r1 == RemoveUserReminder(reg, u)
        aj1 == [x \in DOMAIN r1.aj \cup {u} |-> IF x = u THEN JobId(u) ELSE r1.aj[x]]
    IN IF ~TimeParses(t) THEN [r1 EXCEPT !.aj = aj1]
       ELSE IF ~CronAccepts(t[1].val, t[2].val) THEN [r1 EXCEPT !.aj = aj1]
       ELSE [aj   |-> aj1,
             js   |-> AddJob(r1.js, Job(JobId(u), t[1].val, t[2].val)),
             last |-> [r1.last EXCEPT ![u] = <<t[1].val, t[2].val>>]]

\* setup_user_reminder: remove the user's job, parse the time, add the trigger under
\* reminder_<user_id>, record it.  Any exception after the removal is caught: the
\* removal stays.
SetupUserReminder(reg, u, t) ==
    LET r1 == RemoveUserReminder(reg, u) IN
    IF ~TimeParses(t) THEN r1
    ELSE IF ~CronAccepts(t[1].val, t[2].val) THEN r1
    ELSE [aj   |-> [x \in DOMAIN r1.aj \cup {u} |->
                        IF x = u THEN JobId(u) ELSE r1.aj[x]],
          js   |-> AddJob(r1.js, Job(JobId(u), t[1].val, t[2].val)),
          last |-> [r1.last EXCEPT ![u] = <<t[1].val, t[2].val>>]]

\* ---------------------------------------------------------------- storage readers
\* get_user_settings: None without a row; a column that is NULL, empty or not JSON
\* reads as {}; JSON of any other shape is returned as parsed.
LPEmpty == Row("object", FALSE, FALSE, NoTime)
Settings(found, lp) == [found |-> found, lp |-> lp]
NoSettings == Settings(FALSE, LPEmpty)
\* The read raised (the database is locked, the file unreadable).
ReadFailed == Settings(FALSE, Row("raised", FALSE, FALSE, NoTime))
GetUserSettings(row) ==
    CASE row.shape = "absent"    -> NoSettings
      [] row.shape = "null"      -> Settings(TRUE, LPEmpty)
      [] row.shape = "garbage"   -> Settings(TRUE, LPEmpty)
      [] row.shape = "nonobject" -> Settings(TRUE, row)
      [] OTHER                   -> Settings(TRUE, row)

\* learning_preferences.get('review_reminder_time', '09:00')
TimeOf(lp) == IF lp.hasTime THEN lp.time ELSE T0900

\* The users in the order the SELECT returns their rows.
RECURSIVE UserOrder(_)
UserOrder(us) ==
    IF us = {} THEN <<>>
    ELSE LET m == CHOOSE x \in us : \A y \in us : x <= y IN
         <<m>> \o UserOrder(us \ {m})

\* get_all_users_with_reminders: every row is parsed inside a try that catches
\* JSONDecodeError and KeyError only; .get() on JSON that is not an object raises
\* AttributeError, which leaves the function.
RECURSIVE ScanRows(_, _)
ScanRows(d, us) ==
    IF us = <<>> THEN [ok |-> TRUE, rows |-> <<>>]
    ELSE LET u == Head(us)
             row == d[u]
             rest == ScanRows(d, Tail(us))
         IN CASE row.shape \in {"absent", "null", "garbage"} -> rest
              [] row.shape = "nonobject" -> [ok |-> FALSE, rows |-> <<>>]
              [] OTHER ->
                   IF ~row.enabled THEN rest
                   ELSE [ok |-> rest.ok,
                         rows |-> IF rest.ok
                                  THEN <<[user |-> u, time |-> TimeOf(row)]>> \o rest.rows
                                  ELSE <<>>]
GetAllUsersWithReminders(d) == ScanRows(d, UserOrder(Users))

\* ---------------------------------------------------------------- reminder manager
\* An update_user_reminder_settings that leaves the job of a disabled user in place.
UpdateKeepingDisabled(reg, u, s) ==
    IF ~s.found THEN RemoveUserReminder(reg, u)
    ELSE IF s.lp.shape = "nonobject" THEN reg
    ELSE IF ~s.lp.enabled THEN reg
    ELSE SetupUserReminder(reg, u, TimeOf(s.lp))

\* An update_user_reminder_settings that takes a failed read for a missing row.
OnReadFailureRemoves(reg, u) == RemoveUserReminder(reg, u)
\* get_user_settings raised inside update_user_reminder_settings: the except clause
\* at 363 logs, nothing else runs.
OnReadFailure(reg, u) == reg

\* update_user_reminder_settings, after its read returned s (or raised).
UpdateUserReminderSettings(reg, u, s) ==
    IF s = ReadFailed THEN OnReadFailure(reg, u)
    ELSE IF ~s.found THEN RemoveUserReminder(reg, u)
    ELSE IF s.lp.shape = "nonobject" THEN reg      \* AttributeError, caught at 363
    ELSE IF ~s.lp.enabled THEN RemoveUserReminder(reg, u)
    ELSE SetupUserReminder(reg, u, TimeOf(s.lp))

\* The for loop of initialize_user_reminders over the rows read.
RECURSIVE InstallAll(_, _)
InstallAll(reg, rows) ==
    IF rows = <<>> THEN reg
    ELSE InstallAll(SetupUserReminder(reg, Head(rows).user, Head(rows).time), Tail(rows))

\* initialize_user_reminders on what its read returned: nothing when the read
\* raised (caught at 92) or returned no user.
InitializeUserReminders(reg, got) ==
    IF ~got.ok THEN reg ELSE InstallAll(reg, got.rows)

\* A reconciliation pass of a fresh process over the store d.
FreshReconcile(d) ==
    InitializeUserReminders(Reg(NoJobs, {}, NeverInstalled), GetAllUsersWithReminders(d))

\* ---------------------------------------------------------------- event bus: helpers
IdleLoop == [pc |-> "none", ev |-> NoneItem, tasks |-> <<>>, exit |-> "none"]
Task(cb, st, snap) == [cb |-> cb, st |-> st, snap |-> snap]
Finished(t) == t.st \in {"ok", "failed"}

\* A publish that enqueues only while the bus is running.
PutIfRunning(q, item) == IF running THEN Append(q, item) ELSE q
\* asyncio.Queue.put on an unbounded queue: append, never waits, never raises.
Put(q, item) == Append(q, item)

\* Taking the newest item instead.
QueueGetNewest(q) == [item |-> q[Len(q)], rest |-> SubSeq(q, 1, Len(q) - 1)]
\* asyncio.Queue.get_nowait: the oldest item.
QueueGet(q) == [item |-> Head(q), rest |-> Tail(q)]

\* _handle_event: one task per subscribed callback, in list order.
SpawnTasks(subs) == [i \in 1..Len(subs) |-> Task(subs[i], "created", NoSettings)]

\* gather() without return_exceptions: the first exception ends the wait.
JoinReadyFailFast(tasks) ==
    \/ \E i \in 1..Len(tasks) : tasks[i].st = "failed"
    \/ \A i \in 1..Len(tasks) : Finished(tasks[i])
\* asyncio.gather(*tasks, return_exceptions=True): done when every task is.
JoinReady(tasks) == \A i \in 1..Len(tasks) : Finished(tasks[i])

\* self._subscribers.get(event.event_type, [])
SubscribersOf(k) == IF k \in DOMAIN subscribers THEN subscribers[k] ELSE <<>>

\* One run of _process_events from the point where it resumes to the point where it
\* next suspends or returns.  atTop: the run starts at `while self._running`
\* (a new task, or gather() returned); otherwise it starts inside Queue.get(), woken
\* by a put.  Events without subscribers are handed to _handle_event, which returns
\* at once, and the loop goes round in the same run.
\*   out: "stopped"  the while condition was false
\*        "sentinel" None was dequeued
\*        "wait"     the queue is empty: suspended in get()
\*        "dispatch" the callbacks of ev were spawned: suspended in gather()
RECURSIVE Consume(_, _)
Consume(q, atTop) ==
    IF atTop /\ ~running
    THEN [q |-> q, out |-> "stopped", ev |-> NoneItem, seen |-> <<>>]
    ELSE IF q = <<>>
    THEN [q |-> q, out |-> "wait", ev |-> NoneItem, seen |-> <<>>]
    ELSE LET g == QueueGet(q) IN
         IF g.item = NoneItem
         THEN [q |-> g.rest, out |-> "sentinel", ev |-> NoneItem, seen |-> <<>>]
         ELSE LET subs == SubscribersOf(g.item.kind)
                  entry == [id |-> g.item.id, kind |-> g.item.kind, user |-> g.item.user,
                            n |-> Len(subs)]
              IN IF subs = <<>>
                 THEN LET r == Consume(g.rest, TRUE) IN
                      [r EXCEPT !.seen = <<entry>> \o r.seen]
                 ELSE [q |-> g.rest, out |-> "dispatch", ev |-> g.item,
                       seen |-> <<entry>>]

LoopAfter(r) ==
    CASE r.out = "stopped"  -> [pc |-> "done", ev |-> NoneItem, tasks |-> <<>>, exit |-> "stopped"]
      [] r.out = "sentinel" -> [pc |-> "done", ev |-> NoneItem, tasks |-> <<>>, exit |-> "sentinel"]
      [] r.out = "wait"     -> [pc |-> "get", ev |-> NoneItem, tasks |-> <<>>, exit |-> "none"]
      [] OTHER              -> [pc |-> "gather", ev |-> r.ev,
                                tasks |-> SpawnTasks(SubscribersOf(r.ev.kind)), exit |-> "none"]

\* The effect of one run of loop l.
Advance(l, atTop) ==
    LET r == Consume(queue, atTop) IN
    /\ queue' = r.q
    /\ loops' = [loops EXCEPT ![l] = LoopAfter(r)]
    /\ dispatched' = dispatched \o r.seen

\* ---------------------------------------------------------------- event bus: operations
\* start(): nothing when _running; else set it and create the loop task.
StartBus ==
    IF running
    THEN UNCHANGED <<running, processor_task, loops, nLoops>>
    ELSE /\ nLoops < MaxLoops
         /\ running' = TRUE
         /\ nLoops' = nLoops + 1
         /\ processor_task' = nLoops + 1
         /\ loops' = [loops EXCEPT ![nLoops + 1].pc = "created"]

BusStart ==
    /\ StartBus
    /\ UNCHANGED <<subscribers, queue, stopping>>
    /\ UNCHANGED svcVars
    /\ UNCHANGED <<nPublished, nWrites, dispatched, ran>>
    /\ UNCHANGED fireVars

\* stop(): nothing when not _running; else clear it, put None, and wait for the
\* task _processor_task names.
BusStop ==
    /\ IF ~running
       THEN UNCHANGED <<running, queue, stopping>>
       ELSE /\ running' = FALSE
            /\ queue' = Put(queue, NoneItem)
            /\ stopping' = stopping \cup {processor_task}
    /\ UNCHANGED <<subscribers, processor_task, loops>>
    /\ UNCHANGED svcVars
    /\ UNCHANGED <<nPublished, nLoops, nWrites, dispatched, ran>>
    /\ UNCHANGED fireVars

\* `await self._processor_task` returns once that task is done.
StopReturn(l) ==
    /\ l \in stopping
    /\ loops[l].pc = "done"
    /\ stopping' = stopping \ {l}
    /\ UNCHANGED <<subscribers, queue, running, processor_task, loops>>
    /\ UNCHANGED svcVars
    /\ UNCHANGED histVars
    /\ UNCHANGED fireVars

\* list.remove(callback): the first occurrence.
RECURSIVE RemoveFirst(_, _)
RemoveFirst(seq, c) ==
    IF seq = <<>> THEN <<>>
    ELSE IF Head(seq) = c THEN Tail(seq)
    ELSE <<Head(seq)>> \o RemoveFirst(Tail(seq), c)

Subscriptions == Len(subscribers["user_settings_updated"])
                   + Len(subscribers["reminder_settings_changed"])

Subscribe(k, c) ==
    /\ Subscriptions < MaxSubs
    /\ subscribers' = [subscribers EXCEPT ![k] = Append(@, c)]
    /\ UNCHANGED <<queue, running, processor_task, loops, stopping>>
    /\ UNCHANGED svcVars
    /\ UNCHANGED histVars
    /\ UNCHANGED fireVars

Unsubscribe(k, c) ==
    /\ \E i \in 1..Len(subscribers[k]) : subscribers[k][i] = c
    /\ subscribers' = [subscribers EXCEPT ![k] = RemoveFirst(@, c)]
    /\ UNCHANGED <<queue, running, processor_task, loops, stopping>>
    /\ UNCHANGED svcVars
    /\ UNCHANGED histVars
    /\ UNCHANGED fireVars

\* publish(event) of a bus client.
Publish(k, u, en, t) ==
    /\ nPublished < MaxEvents
    /\ nPublished' = nPublished + 1
    /\ queue' = Put(queue, Event(nPublished + 1, k, u, en, t))
    /\ UNCHANGED <<subscribers, running, processor_task, loops, stopping>>
    /\ UNCHANGED svcVars
    /\ UNCHANGED <<nLoops, nWrites, dispatched, ran>>
    /\ UNCHANGED fireVars

\* ---------------------------------------------------------------- event bus: dispatch loop
\* First run of a loop task.
LoopRun(l) ==
    /\ loops[l].pc = "created"
    /\ Advance(l, TRUE)
    /\ UNCHANGED <<subscribers, running, processor_task, stopping>>
    /\ UNCHANGED svcVars
    /\ UNCHANGED <<nPublished, nLoops, nWrites, ran>>
    /\ UNCHANGED fireVars

\* A loop suspended in get() resumes once the queue holds an item.
LoopWake(l) ==
    /\ loops[l].pc = "get"
    /\ queue # <<>>
    /\ Advance(l, FALSE)
    /\ UNCHANGED <<subscribers, running, processor_task, stopping>>
    /\ UNCHANGED svcVars
    /\ UNCHANGED <<nPublished, nLoops, nWrites, ran>>
    /\ UNCHANGED fireVars

\* gather() returned: _handle_event returns and the loop goes round.
LoopJoin(l) ==
    /\ loops[l].pc = "gather"
    /\ JoinReady(loops[l].tasks)
    /\ Advance(l, TRUE)
    /\ UNCHANGED <<subscribers, running, processor_task, stopping>>
    /\ UNCHANGED svcVars
    /\ UNCHANGED <<nPublished, nLoops, nWrites, ran>>
    /\ UNCHANGED fireVars

\* The callbacks of a bus client: cbOk returns, cbRaise raises.  Where such a
\* callback suspends in between is invisible to the bus: its task is pending from
\* create_task until it is done.
ClientCallbacks == {"cbOk", "cbRaise"}
ResultOf(cb) == IF cb = "cbRaise" THEN "failed" ELSE "ok"

CbRun(l, i) ==
    /\ loops[l].pc = "gather"
    /\ i \in 1..Len(loops[l].tasks)
    /\ loops[l].tasks[i].cb \in ClientCallbacks
    /\ loops[l].tasks[i].st = "created"
    /\ loops' = [loops EXCEPT ![l].tasks[i].st = ResultOf(loops[l].tasks[i].cb)]
    /\ ran' = ran \cup {<<loops[l].ev.id, i, ResultOf(loops[l].tasks[i].cb)>>}
    /\ UNCHANGED <<subscribers, queue, running, processor_task, stopping>>
    /\ UNCHANGED svcVars
    /\ UNCHANGED <<nPublished, nLoops, nWrites, dispatched>>
    /\ UNCHANGED fireVars

\* ---------------------------------------------------------------- ReminderService.start()
CurrentReg == Reg(active_jobs, jobs, installed)
SetReg(reg) ==
    /\ active_jobs' = reg.aj
    /\ jobs' = reg.js
    /\ installed' = reg.last

\* start() up to its first suspension: scheduler.start(), event_manager.start(), the
\* two subscribe calls; then initialize_user_reminders awaits its read.
ServiceStart ==
    /\ svc = "new"
    /\ StartBus
    /\ subscribers' =
         [subscribers EXCEPT !["user_settings_updated"] = Append(@, "h_settings"),
                             !["reminder_settings_changed"] = Append(@, "h_reminder")]
    /\ svc' = "reconciling"
    /\ UNCHANGED <<queue, stopping>>
    /\ UNCHANGED <<db, active_jobs, jobs, installed, recon, reqs>>
    /\ UNCHANGED <<nPublished, nWrites, dispatched, ran>>
    /\ UNCHANGED fireVars

\* The read of initialize_user_reminders.
ReconcileRead ==
    /\ svc = "reconciling"
    /\ recon' = GetAllUsersWithReminders(db)
    /\ svc' = "installing"
    /\ UNCHANGED busVars
    /\ UNCHANGED <<db, active_jobs, jobs, installed, reqs>>
    /\ UNCHANGED histVars
    /\ UNCHANGED fireVars

\* The rest of initialize_user_reminders; start() returns, and
\* setup_bot_and_dispatcher goes on, without suspending, to setup_scheduler, which
\* adds the job of daily_review_reminder (cron, 09:00) to a scheduler of its own.
ReconcileInstall ==
    /\ svc = "installing"
    /\ SetReg(InitializeUserReminders(CurrentReg, recon))
    /\ svc' = "started"
    /\ legacy_next' = NextFire(clock, 9, 0)
    /\ UNCHANGED busVars
    /\ UNCHANGED <<db, recon, reqs>>
    /\ UNCHANGED histVars
    /\ UNCHANGED <<clock, vocabulary, daily_target, fires, nFires, runs, picked, sends,
                   constructed>>

\* ---------------------------------------------------------------- settings endpoints
\* A server that accepts requests from the beginning.
ServerUpFromBoot == TRUE
\* start_webhook: the web server is started after setup_bot_and_dispatcher, and so
\* after ReminderService.start(), has returned.
ServerUp == svc = "started"

\* What a request leaves in the store.  With learning_preferences (POST, or PUT
\* giving them) the column is replaced; a PUT without them creates the default row
\* (reminder enabled, 09:00) when the user has none and leaves the column alone
\* otherwise.
WrittenRow(old, withPrefs, en, t) ==
    IF withPrefs THEN Prefs(en, t)
    ELSE IF old.shape = "absent" THEN Prefs(TRUE, T0900)
    ELSE old

\* The daily_review_target the same write leaves in the column: the model's requests
\* never give the key, so a written column holds the default of the schema.
WrittenTarget(old, oldRow, withPrefs) ==
    IF withPrefs \/ oldRow.shape = "absent" THEN Target(ApiDefaultTarget) ELSE old

\* The storage write of create_or_update_settings / update_settings.
ApiWrite(u, withPrefs, en, t) ==
    /\ ServerUp
    /\ nWrites < MaxWrites
    /\ nWrites' = nWrites + 1
    /\ db' = [db EXCEPT ![u] = WrittenRow(@, withPrefs, en, t)]
    /\ daily_target' = [daily_target EXCEPT ![u] = WrittenTarget(@, db[u], withPrefs)]
    /\ reqs' = reqs \cup {[w |-> nWrites + 1, user |-> u, withPrefs |-> withPrefs,
                           enabled |-> en, time |-> t]}
    /\ UNCHANGED busVars
    /\ UNCHANGED <<active_jobs, jobs, installed, svc, recon>>
    /\ UNCHANGED <<nPublished, nLoops, dispatched, ran>>
    /\ UNCHANGED <<clock, vocabulary, legacy_next, fires, nFires, runs, picked, sends,
                   constructed>>

\* The events of one request: user_settings_updated, then reminder_settings_changed
\* with the values of the request when it carried learning_preferences.
EventsOf(r, n) ==
    <<Event(n + 1, "user_settings_updated", r.user, FALSE, NoTime)>>
    \o (IF r.withPrefs
        THEN <<Event(n + 2, "reminder_settings_changed", r.user, r.enabled, r.time)>>
        ELSE <<>>)

RECURSIVE PutAll(_, _)
PutAll(q, evs) == IF evs = <<>> THEN q ELSE PutAll(Put(q, Head(evs)), Tail(evs))

\* The rest of the request after the write: both publishes, neither of which suspends.
ApiPublish(r) ==
    /\ r \in reqs
    /\ reqs' = reqs \ {r}
    /\ queue' = PutAll(queue, EventsOf(r, nPublished))
    /\ nPublished' = nPublished + Len(EventsOf(r, nPublished))
    /\ UNCHANGED <<subscribers, running, processor_task, loops, stopping>>
    /\ UNCHANGED <<db, active_jobs, jobs, installed, svc, recon>>
    /\ UNCHANGED <<nLoops, nWrites, dispatched, ran>>
    /\ UNCHANGED fireVars

\* ---------------------------------------------------------------- event handlers
\* A handler that goes through the storage read for every event.
ReadsAlways(cb, ev) == TRUE
\* A reminder_settings_changed handler that never falls back to the storage read.
ReadsOnSettingsOnly(cb, ev) == cb = "h_settings"

\* Whether the handler goes through update_user_reminder_settings (a storage read).
ReadsStorage(cb, ev) ==
    \/ cb = "h_settings"
    \/ cb = "h_reminder" /\ ev.enabled /\ ev.time = NoTime

\* _handle_reminder_settings_changed when it needs no read.
FastPath(reg, ev) ==
    IF ~ev.enabled THEN RemoveUserReminder(reg, ev.user)
    ELSE SetupUserReminder(reg, ev.user, ev.time)

\* A handler task runs from its creation: either to the end (fast path) or to the
\* read of update_user_reminder_settings, whose result it resumes with.
HandlerStart(l, i) ==
    /\ loops[l].pc = "gather"
    /\ i \in 1..Len(loops[l].tasks)
    /\ loops[l].tasks[i].cb \in {"h_settings", "h_reminder"}
    /\ loops[l].tasks[i].st = "created"
    /\ LET ev == loops[l].ev
           cb == loops[l].tasks[i].cb
       IN IF ReadsStorage(cb, ev)
          THEN /\ loops' = [loops EXCEPT ![l].tasks[i] =
                               Task(cb, "apply", GetUserSettings(db[ev.user]))]
               /\ UNCHANGED <<active_jobs, jobs, installed, ran>>
          ELSE /\ SetReg(FastPath(CurrentReg, ev))
               /\ loops' = [loops EXCEPT ![l].tasks[i].st = "ok"]
               /\ ran' = ran \cup {<<ev.id, i, "ok">>}
    /\ UNCHANGED <<subscribers, queue, running, processor_task, stopping>>
    /\ UNCHANGED <<db, svc, recon, reqs>>
    /\ UNCHANGED <<nPublished, nLoops, nWrites, dispatched>>
    /\ UNCHANGED fireVars

\* A handler task runs from its creation to the read of
\* update_user_reminder_settings, and the read raises.
HandlerReadFails(l, i) ==
    /\ loops[l].pc = "gather"
    /\ i \in 1..Len(loops[l].tasks)
    /\ loops[l].tasks[i].cb \in {"h_settings", "h_reminder"}
    /\ loops[l].tasks[i].st = "created"
    /\ ReadsStorage(loops[l].tasks[i].cb, loops[l].ev)
    /\ loops' = [loops EXCEPT ![l].tasks[i] = Task(loops[l].tasks[i].cb, "apply", ReadFailed)]
    /\ UNCHANGED <<subscribers, queue, running, processor_task, stopping>>
    /\ UNCHANGED svcVars
    /\ UNCHANGED histVars
    /\ UNCHANGED fireVars

\* update_user_reminder_settings resumes with the settings it read.
HandlerApply(l, i) ==
    /\ loops[l].pc = "gather"
    /\ i \in 1..Len(loops[l].tasks)
    /\ loops[l].tasks[i].st = "apply"
    /\ SetReg(UpdateUserReminderSettings(CurrentReg, loops[l].ev.user,
                                         loops[l].tasks[i].snap))
    /\ loops' = [loops EXCEPT ![l].tasks[i].st = "ok"]
    /\ ran' = ran \cup {<<loops[l].ev.id, i, "ok">>}
    /\ UNCHANGED <<subscribers, queue, running, processor_task, stopping>>
    /\ UNCHANGED <<db, svc, recon, reqs>>
    /\ UNCHANGED <<nPublished, nLoops, nWrites, dispatched>>
    /\ UNCHANGED fireVars

\* ---------------------------------------------------------------- due words
\* A word of the words table: its id and its next_review date (a day number), or no
\* date at all (NULL or empty, falsy).
Word(id, day) == [id |-> id, has |-> TRUE, day |-> day]
WordNoReview(id) == [id |-> id, has |-> FALSE, day |-> 0]

HardCeiling == 20       \* min(daily_target, 20)
DefaultTarget == 10     \* .get('daily_review_target', 10), and the target without settings
FallbackLimit == 10     \* due_words[:10] when reading the target raised

Min(a, b) == IF a <= b THEN a ELSE b
Max(a, b) == IF a >= b THEN a ELSE b

\* word.get('next_review') and word['next_review'] <= current_date
IsDue(w, today) == w.has /\ w.day <= today
DueOf(vocab, today) == SelectSeq(vocab, LAMBDA w : IsDue(w, today))

\* A sort that is not stable: a word goes ahead of the placed words of the same date.
RECURSIVE InsertBeforeTies(_, _)
InsertBeforeTies(sorted, w) ==
    IF sorted = <<>> THEN <<w>>
    ELSE IF sorted[Len(sorted)].day < w.day THEN Append(sorted, w)
    ELSE Append(InsertBeforeTies(SubSeq(sorted, 1, Len(sorted) - 1), w),
                sorted[Len(sorted)])
\* due_words.sort(key=next_review): list.sort is stable, so a word goes behind every
\* word already placed whose date is not later.
RECURSIVE InsertByReview(_, _)
InsertByReview(sorted, w) ==
    IF sorted = <<>> THEN <<w>>
    ELSE IF sorted[Len(sorted)].day <= w.day THEN Append(sorted, w)
    ELSE Append(InsertByReview(SubSeq(sorted, 1, Len(sorted) - 1), w), sorted[Len(sorted)])
RECURSIVE SortByReview(_)
SortByReview(s) ==
    IF s = <<>> THEN <<>>
    ELSE InsertByReview(SortByReview(SubSeq(s, 1, Len(s) - 1)), s[Len(s)])

\* s[:n] of a Python list: a negative n counts from the end.
PySlice(s, n) ==
    IF n >= 0 THEN SubSeq(s, 1, Min(n, Len(s)))
    ELSE SubSeq(s, 1, Max(Len(s) + n, 0))

\* The daily_review_target a settings read finds in a row: only a JSON object has keys.
TargetOf(row, tgt) == IF row.shape = "object" THEN tgt ELSE MissingTarget

\* Lines 203-213 on the settings read (st, tgt): the limit, or raised when .get() is
\* called on JSON that is not an object or min() compares a non-number with 20.
DueLimit(st, tgt) ==
    IF ~st.found THEN [raised |-> FALSE, n |-> Min(DefaultTarget, HardCeiling)]
    ELSE IF st.lp.shape = "nonobject" THEN [raised |-> TRUE, n |-> 0]
    ELSE CASE tgt.kind = "missing" -> [raised |-> FALSE, n |-> Min(DefaultTarget, HardCeiling)]
           [] tgt.kind = "int"     -> [raised |-> FALSE, n |-> Min(tgt.val, HardCeiling)]
           [] OTHER                -> [raised |-> TRUE, n |-> 0]

\* What get_due_words_for_user returns for the sorted due list and the settings read.
LimitDueWords(due, st, tgt) ==
    IF DueLimit(st, tgt).raised THEN PySlice(due, FallbackLimit)
    ELSE PySlice(due, DueLimit(st, tgt).n)

\* A call of send_reminder_to_user or get_due_words_for_user in flight.
\*   from  "job" (the scheduler ran send_reminder_to_user) or "call" (a direct call
\*         of get_due_words_for_user)
\*   st    "check" settings read, "words" before the words are read, "limit" after the
\*         second settings read, "send" in bot.send_message
\*   at    the run time of the job that started it (-1 for a direct call)
Fire(n, u, from, st, at, snap, tgt, due, what) ==
    [n |-> n, user |-> u, from |-> from, st |-> st, at |-> at, snap |-> snap,
     tgt |-> tgt, due |-> due, what |-> what]

\* get_due_words_for_user(u) is called.
DueCall(u) ==
    /\ nFires < MaxFires
    /\ nFires' = nFires + 1
    /\ fires' = fires \cup {Fire(nFires + 1, u, "call", "words", -1, NoSettings,
                                  MissingTarget, <<>>, "none")}
    /\ UNCHANGED <<busVars, svcVars, histVars>>
    /\ UNCHANGED <<clock, vocabulary, daily_target, legacy_next, runs, picked, sends,
                   constructed>>

\* get_due_words_for_user from the words read to the settings read: the words come
\* back, the due ones are kept and sorted, and get_user_settings is awaited.  No
\* words at all returns [] before any settings read.
DueRead(f) ==
    /\ f \in fires
    /\ f.st = "words"
    /\ LET due == SortByReview(DueOf(vocabulary[f.user], DayOf(clock)))
           g == [f EXCEPT !.st = "limit", !.due = due,
                          !.snap = GetUserSettings(db[f.user]),
                          !.tgt = TargetOf(db[f.user], daily_target[f.user])]
       IN fires' = (fires \ {f}) \cup {g}
    /\ UNCHANGED <<busVars, svcVars, histVars>>
    /\ UNCHANGED <<clock, vocabulary, daily_target, legacy_next, nFires, runs, picked, sends,
                   constructed>>

\* A call that sends the due-item reminder whatever the selection holds.
AlwaysReminder(sel) == "reminder"
\* if not due_words: send_encouragement_message, else the composed reminder.
MessageKind(sel) == IF sel = <<>> THEN "encouragement" ELSE "reminder"

\* get_due_words_for_user returns: the limit and the slice.  Inside
\* send_reminder_to_user the result decides between reminder and encouragement, and
\* the message is composed up to bot.send_message.
DueReturn(f) ==
    /\ f \in fires
    /\ f.st = "limit"
    /\ LET sel == IF vocabulary[f.user] = <<>> THEN <<>>
                  ELSE LimitDueWords(f.due, f.snap, f.tgt)
       IN /\ picked' = picked \cup {[n |-> f.n, user |-> f.user, due |-> f.due,
                                      snap |-> f.snap, tgt |-> f.tgt, sel |-> sel]}
          /\ fires' = IF f.from = "call" THEN fires \ {f}
                      ELSE (fires \ {f}) \cup
                           {[f EXCEPT !.st = "send", !.due = <<>>,
                                      !.what = MessageKind(sel)]}
    /\ UNCHANGED <<busVars, svcVars, histVars>>
    /\ UNCHANGED <<clock, vocabulary, daily_target, legacy_next, nFires, runs, sends,
                   constructed>>

\* ---------------------------------------------------------------- firing
NoGraceTime == 0            \* a job that tolerates no delay
MisfireGraceTime == 300     \* seconds: add_job(..., misfire_grace_time=300)

\* The user of a reminder job.
UserOfJob(j) == j.id[2]
\* A job is due when its next run time has come.
DueJobs == {j \in jobs : j.next <= clock}
\* The run time the scheduler hands to the executor for a due job: the job store
\* coalesces the run times that have passed into the latest one.
RunTimeOf(j) == LastFire(clock, j.hour, j.minute)
\* The executor skips a run that is later than the job's misfire_grace_time.
Late(j) == (clock - RunTimeOf(j)) * 60 > MisfireGraceTime
\* max_instances is 1: a run is not submitted while a run of the same job id is on.
Busy(j) == \E f \in fires : f.from = "job" /\ f.user = UserOfJob(j)
Outcome(j) == IF Busy(j) THEN "skipped" ELSE IF Late(j) THEN "missed" ELSE "fired"

\* Time passes to a later instant; nothing makes the scheduler run in between.
Tick(t) ==
    /\ t > clock
    /\ clock' = t
    /\ UNCHANGED <<busVars, svcVars, histVars>>
    /\ UNCHANGED <<vocabulary, daily_target, legacy_next, fires, nFires, runs, picked, sends,
                   constructed>>

\* The scheduler of the ReminderService wakes up: every due job is handed to the
\* executor with its latest run time and gets its next run time; a run in time
\* starts send_reminder_to_user, which goes to its settings read.
ProcessJobs ==
    /\ DueJobs # {}
    /\ LET fired == {j \in DueJobs : Outcome(j) = "fired"}
           rank(j) == Cardinality({k \in fired : UserOfJob(k) <= UserOfJob(j)})
       IN /\ jobs' = (jobs \ DueJobs) \cup
                        {[j EXCEPT !.next = RunTimeOf(j) + 1440] : j \in DueJobs}
          /\ runs' = runs \cup {[user |-> UserOfJob(j), run |-> RunTimeOf(j),
                                  at |-> clock, did |-> Outcome(j),
                                  n |-> IF j \in fired THEN nFires + rank(j) ELSE 0,
                                  snap |-> GetUserSettings(db[UserOfJob(j)])] : j \in DueJobs}
          /\ fires' = fires \cup
                        {Fire(nFires + rank(j), UserOfJob(j), "job", "check", RunTimeOf(j),
                              GetUserSettings(db[UserOfJob(j)]), MissingTarget, <<>>, "none")
                           : j \in fired}
          /\ nFires' = nFires + Cardinality(fired)
    /\ UNCHANGED <<busVars, histVars>>
    /\ UNCHANGED <<db, active_jobs, installed, svc, recon, reqs>>
    /\ UNCHANGED <<clock, vocabulary, daily_target, legacy_next, picked, sends,
                   constructed>>

\* A send_reminder_to_user that does not look at the settings it read.
PassesAlways(st) == TRUE
\* not settings or not learning_preferences.get('review_reminder_enabled', False)
\* lets the call go on (.get on preferences that are no object raises).
PassesCheck(st) == st.found /\ st.lp.shape = "object" /\ st.lp.enabled

\* send_reminder_to_user resumes with its settings: no row, reminders off, or
\* preferences that are no object (AttributeError, caught at 173) end the call;
\* otherwise get_due_words_for_user is called and reads the words.
FireCheck(f) ==
    /\ f \in fires
    /\ f.st = "check"
    /\ fires' = IF PassesCheck(f.snap)
                THEN (fires \ {f}) \cup {[f EXCEPT !.st = "words"]}
                ELSE fires \ {f}
    /\ UNCHANGED <<busVars, svcVars, histVars>>
    /\ UNCHANGED <<clock, vocabulary, daily_target, legacy_next, nFires, runs, picked, sends,
                   constructed>>

\* A call that sends again until the send succeeds.
AfterSendRetry(f, ok) == IF ok THEN fires \ {f} ELSE fires
\* The calls in flight once bot.send_message of call f has returned or raised: the
\* except clauses at 173 and 305 log, and the call returns.
AfterSend(f, ok) == fires \ {f}

\* bot.send_message returns or raises (caught at 173 / 305); the call is over.
FireSend(f, ok) ==
    /\ f \in fires
    /\ f.st = "send"
    /\ sends' = sends \cup {[n |-> f.n, user |-> f.user, day |-> DayOf(f.at),
                              by |-> "job", what |-> f.what, ok |-> ok]}
    /\ fires' = AfterSend(f, ok)
    /\ UNCHANGED <<busVars, svcVars, histVars>>
    /\ UNCHANGED <<clock, vocabulary, daily_target, legacy_next, nFires, runs, picked,
                   constructed>>

\* The users daily_review_reminder writes to: those with a word whose next_review
\* has come.
HasWordToReview(u) == \E i \in 1..Len(vocabulary[u]) : IsDue(vocabulary[u][i], DayOf(clock))
\* The scheduler of setup_scheduler wakes up for its 09:00 job, which has the default
\* grace of one second: a run that is late is skipped, a run in time attempts a send
\* to every user with a word to review (a failed send is caught and printed).
LegacyRun ==
    /\ legacy_next # -1
    /\ legacy_next <= clock
    /\ legacy_next' = LastFire(clock, 9, 0) + 1440
    /\ sends' = IF clock = LastFire(clock, 9, 0)
                THEN sends \cup {[n |-> 0, user |-> u, day |-> DayOf(clock), by |-> "legacy",
                                  what |-> "reminder", ok |-> TRUE] :
                                     u \in {v \in Users : HasWordToReview(v)}}
                ELSE sends
    /\ UNCHANGED <<busVars, svcVars, histVars>>
    /\ UNCHANGED <<clock, vocabulary, daily_target, fires, nFires, runs, picked,
                   constructed>>

\* ---------------------------------------------------------------- specifications
InitBus ==
    /\ subscribers = [k \in Kinds |-> <<>>]
    /\ queue = <<>>
    /\ running = FALSE
    /\ processor_task = 0
    /\ loops = [l \in LoopIds |-> IdleLoop]
    /\ stopping = {}

InitHist ==
    /\ nPublished = 0
    /\ nLoops = 0
    /\ nWrites = 0
    /\ dispatched = <<>>
    /\ ran = {}

InitService ==
    /\ active_jobs = NoJobs
    /\ jobs = {}
    /\ installed = NeverInstalled
    /\ svc = "new"
    /\ recon = [ok |-> TRUE, rows |-> <<>>]
    /\ reqs = {}

\* Midnight of day 0, no call of send_reminder_to_user yet, empty histories.
InitFire ==
    /\ clock = 0
    /\ legacy_next = -1
    /\ fires = {}
    /\ nFires = 0
    /\ runs = {}
    /\ picked = {}
    /\ sends = {}
    /\ constructed = {}

\* No words, and rows that name no daily_review_target.
InitWords ==
    /\ vocabulary = [u \in Users |-> <<>>]
    /\ daily_target = [u \in Users |-> MissingTarget]

\* A fresh process over any store.
Init ==
    /\ InitBus
    /\ InitHist
    /\ InitService
    /\ InitFire
    /\ InitWords
    /\ db \in [Users -> InitRows]

Dispatch ==
    \/ \E l \in LoopIds : LoopRun(l)
    \/ \E l \in LoopIds : LoopWake(l)
    \/ \E l \in LoopIds : LoopJoin(l)

Next ==
    \/ ServiceStart
    \/ ReconcileRead
    \/ ReconcileInstall
    \/ \E u \in Users, withPrefs \in BOOLEAN, en \in BOOLEAN, t \in ApiTimes :
          ApiWrite(u, withPrefs, en, t)
    \/ \E r \in reqs : ApiPublish(r)
    \/ Dispatch
    \/ \E l \in LoopIds, i \in 1..MaxSubs : HandlerStart(l, i)
    \/ \E l \in LoopIds, i \in 1..MaxSubs : HandlerApply(l, i)

Spec == Init /\ [][Next]_vars

\* The program as main.py wires it, over a store whose reads can fail.
NextFault ==
    \/ ServiceStart
    \/ ReconcileRead
    \/ ReconcileInstall
    \/ \E u \in Users, withPrefs \in BOOLEAN, en \in BOOLEAN, t \in ApiTimes :
          ApiWrite(u, withPrefs, en, t)
    \/ \E r \in reqs : ApiPublish(r)
    \/ Dispatch
    \/ \E l \in LoopIds, i \in 1..MaxSubs : HandlerStart(l, i)
    \/ \E l \in LoopIds, i \in 1..MaxSubs : HandlerReadFails(l, i)
    \/ \E l \in LoopIds, i \in 1..MaxSubs : HandlerApply(l, i)

SpecFault == Init /\ [][NextFault]_vars

\* The bus alone: a constructed EventManager and clients that use its interface.
InitBusOnly ==
    /\ InitBus
    /\ InitHist
    /\ InitService
    /\ InitFire
    /\ InitWords
    /\ db = [u \in Users |-> Absent]

NextBus ==
    \/ BusStart
    \/ BusStop
    \/ \E l \in LoopIds : StopReturn(l)
    \/ \E k \in Kinds, c \in ClientCallbacks : Subscribe(k, c)
    \/ \E k \in Kinds, c \in ClientCallbacks : Unsubscribe(k, c)
    \/ \E k \in Kinds : Publish(k, 1, FALSE, NoTime)
    \/ Dispatch
    \/ \E l \in LoopIds, i \in 1..MaxSubs : CbRun(l, i)

SpecBus == InitBusOnly /\ [][NextBus]_vars

\* The reminder manager under any publisher: a started ReminderService, a store that
\* any writer changes, and clients of the bus that call the two publish helpers with
\* any arguments (publish_reminder_settings_changed with or without a time).
EventTimes == {NoTime, T0900, T1830}

\* A committed settings write of some writer; nothing is published by it.
StoreWrite(u, en, t) ==
    /\ svc = "started"
    /\ nWrites < MaxWrites
    /\ nWrites' = nWrites + 1
    /\ db' = [db EXCEPT ![u] = WrittenRow(@, TRUE, en, t)]
    /\ daily_target' = [daily_target EXCEPT ![u] = WrittenTarget(@, db[u], TRUE)]
    /\ UNCHANGED busVars
    /\ UNCHANGED <<active_jobs, jobs, installed, svc, recon, reqs>>
    /\ UNCHANGED <<nPublished, nLoops, dispatched, ran>>
    /\ UNCHANGED <<clock, vocabulary, legacy_next, fires, nFires, runs, picked, sends,
                   constructed>>

\* publish_user_settings_updated(u) / publish_reminder_settings_changed(u, en, t).
SvcPublish(k, u, en, t) ==
    /\ svc = "started"
    /\ k = "user_settings_updated" => (~en /\ t = NoTime)
    /\ Publish(k, u, en, t)

\* publish(Event(USER_DELETED, u)).
PublishUserDeleted(u) ==
    /\ svc = "started"
    /\ Publish("user_deleted", u, FALSE, NoTime)

NextSvc ==
    \/ ServiceStart
    \/ ReconcileRead
    \/ ReconcileInstall
    \/ \E u \in Users, en \in BOOLEAN, t \in ApiTimes : StoreWrite(u, en, t)
    \/ \E k \in Kinds, u \in Users, en \in BOOLEAN, t \in EventTimes : SvcPublish(k, u, en, t)
    \/ \E u \in Users : PublishUserDeleted(u)
    \/ Dispatch
    \/ \E l \in LoopIds, i \in 1..MaxSubs : HandlerStart(l, i)
    \/ \E l \in LoopIds, i \in 1..MaxSubs : HandlerApply(l, i)

SpecSvc == Init /\ [][NextSvc]_vars

\* get_due_words_for_user alone: any words table, any stored target, a call per step.
MixedWords ==
    <<Word(1, 0), Word(2, 1), WordNoReview(3), Word(4, -2), Word(5, 0), Word(6, -2)>>
ManyDue(n) == [i \in 1..n |-> Word(i, 0 - (i % 3))]
Vocabularies == {<<>>, MixedWords, ManyDue(MaxWords)}
Targets ==
    {MissingTarget, NonIntTarget} \cup {Target(v) : v \in {-5, -1, 0, 1, 10, 20, 21, 30}}
DueRows == {Absent, NonObject, Prefs(FALSE, T0900)}

InitDue ==
    /\ InitBus
    /\ InitHist
    /\ InitService
    /\ InitFire
    /\ vocabulary \in [Users -> Vocabularies]
    /\ db \in [Users -> DueRows]
    /\ daily_target \in [Users -> Targets]
    /\ \A u \in Users : db[u].shape # "object" => daily_target[u] = MissingTarget

NextDue ==
    \/ \E u \in Users : DueCall(u)
    \/ \E f \in fires : DueRead(f)
    \/ \E f \in fires : DueReturn(f)

SpecDue == InitDue /\ [][NextDue]_vars

\* A few words: due today, due tomorrow, never reviewed, overdue.
FireWords == <<Word(1, 0), Word(2, 1), WordNoReview(3), Word(4, -2)>>

\* The schedulers over the clock of several days: the reminder manager after its start,
\* the job of setup_scheduler, and the calls of send_reminder_to_user the scheduler
\* starts.
ClockRows == {Absent, NonObject, Prefs(TRUE, T0900), Prefs(TRUE, T1830), Prefs(FALSE, T0900)}

InitClock ==
    /\ InitBus
    /\ InitHist
    /\ InitService
    /\ InitFire
    /\ db \in [Users -> ClockRows]
    /\ vocabulary = [u \in Users |-> IF u = 1 THEN FireWords ELSE <<>>]
    /\ daily_target = [u \in Users |-> IF db[u].shape = "object" THEN Target(ApiDefaultTarget)
                                         ELSE MissingTarget]

NextClock ==
    \/ ServiceStart
    \/ ReconcileRead
    \/ ReconcileInstall
    \/ \E t \in Instants : Tick(t)
    \/ ProcessJobs
    \/ \E f \in fires : FireCheck(f)
    \/ \E f \in fires : DueRead(f)
    \/ \E f \in fires : DueReturn(f)
    \/ \E f \in fires, ok \in BOOLEAN : FireSend(f, ok)
    \/ LegacyRun

SpecClock == InitClock /\ [][NextClock]_vars

\* The program with time and settings requests: the reminder manager and the job of
\* setup_scheduler over the clock of one day, the settings endpoints, and the calls of
\* send_reminder_to_user the scheduler starts.
FireRows == {Absent, Prefs(TRUE, T0900)}

InitFiring ==
    /\ InitBus
    /\ InitHist
    /\ InitService
    /\ InitFire
    /\ db \in [Users -> FireRows]
    /\ vocabulary = [u \in Users |-> IF u = 1 THEN FireWords ELSE <<>>]
    /\ daily_target = [u \in Users |-> IF db[u].shape = "object" THEN Target(ApiDefaultTarget)
                                         ELSE MissingTarget]

\* A settings request that gives learning_preferences.
SettingsChange(u, en, t) ==
    /\ nWrites < MaxChanges
    /\ ApiWrite(u, TRUE, en, t)

NextFiring ==
    \/ ServiceStart
    \/ ReconcileRead
    \/ ReconcileInstall
    \/ \E u \in Users, en \in BOOLEAN, t \in ApiTimes : SettingsChange(u, en, t)
    \/ \E r \in reqs : ApiPublish(r)
    \/ Dispatch
    \/ \E l \in LoopIds, i \in 1..MaxSubs : HandlerStart(l, i)
    \/ \E l \in LoopIds, i \in 1..MaxSubs : HandlerApply(l, i)
    \/ \E t \in DayInstants : Tick(t)
    \/ ProcessJobs
    \/ \E f \in fires : FireCheck(f)
    \/ \E f \in fires : DueRead(f)
    \/ \E f \in fires : DueReturn(f)
    \/ \E f \in fires, ok \in BOOLEAN : FireSend(f, ok)
    \/ LegacyRun

SpecFire == InitFiring /\ [][NextFiring]_vars

\* ---------------------------------------------------------------- properties: helpers
DispatchedIds == {dispatched[i].id : i \in 1..Len(dispatched)}
InHand == {loops[l].ev.id : l \in {x \in LoopIds : loops[x].pc = "gather"}}
\* The events whose _handle_event has returned.
HandledIds == DispatchedIds \ InHand
Alive(l) == loops[l].pc \in {"created", "get", "gather"}
IsEvent(item) == item # NoneItem

\* Loop l lets go of the event it holds in this step.
LeavesEvent(l) ==
    /\ loops[l].pc = "gather"
    /\ loops'[l].pc # "gather" \/ loops'[l].ev # loops[l].ev

\* C1: events are handed to _handle_event in exactly the order publish() enqueued
\* them, whatever their kinds: the n-th event dispatched is the n-th event enqueued.
FifoDispatch == \A i \in 1..Len(dispatched) : dispatched[i].id = i

FifoDispatchWitness ==
    /\ Len(dispatched) = 2
    /\ dispatched[1].kind # dispatched[2].kind
    /\ dispatched[1].n > 0
    /\ nLoops = 2

\* C2: a callback that raises for event E stops neither its siblings nor the loop:
\* every callback found subscribed when E was dispatched has run by the time
\* _handle_event returns, and a loop that lets go of E with a failed callback goes on
\* to the next queued event (it ends only by _running being false or by the None).
SiblingsRan ==
    \A i \in 1..Len(dispatched) :
        dispatched[i].id \in HandledIds =>
            \A j \in 1..dispatched[i].n :
                \E res \in {"ok", "failed"} : <<dispatched[i].id, j, res>> \in ran

ContinuesAfterFailure ==
    \A l \in LoopIds :
        (/\ LeavesEvent(l)
         /\ \E i \in 1..Len(loops[l].tasks) : loops[l].tasks[i].st = "failed")
        => /\ loops'[l].pc = "done"
                 => (~running \/ \E k \in 1..Len(queue) : queue[k] = NoneItem)
           /\ (running /\ queue # <<>> /\ IsEvent(Head(queue)))
                 => /\ Len(dispatched') > Len(dispatched)
                    /\ dispatched'[Len(dispatched) + 1].id = Head(queue).id

FaultIsolation == []SiblingsRan /\ [][ContinuesAfterFailure]_vars

FaultIsolationWitness ==
    /\ \E i, j \in 1..MaxSubs : <<1, i, "failed">> \in ran /\ <<1, j, "ok">> \in ran
    /\ 1 \in HandledIds
    /\ 2 \in DispatchedIds

\* C3: when every settings write has published its events and every event has been
\* handled, the registry and the triggers are those a fresh reconciliation pass over
\* the store would produce.  (Stated for the runs the failures of reconciliation
\* itself cannot touch: the startup pass was not aborted, and every row of the final
\* store is well formed.)
Quiescent ==
    /\ svc = "started"
    /\ reqs = {}
    /\ queue = <<>>
    /\ \A l \in LoopIds : loops[l].pc # "gather" /\ loops[l].pc # "created"
WellShaped(row) == row.shape \in {"absent", "object"}
Convergence ==
    (Quiescent /\ recon.ok /\ \A u \in Users : WellShaped(db[u]))
    => /\ active_jobs = FreshReconcile(db).aj
       /\ jobs = FreshReconcile(db).js

\* C4: the handler of a reminder_settings_changed event with reminder_enabled false
\* finishes in its first run, without the storage read, and leaves the user with no
\* registry entry and no trigger.
DisableStep ==
    \A l \in LoopIds : \A i \in 1..Len(loops[l].tasks) :
        (/\ loops[l].pc = "gather"
         /\ loops[l].ev.kind = "reminder_settings_changed"
         /\ ~loops[l].ev.enabled
         /\ loops[l].tasks[i].cb = "h_reminder"
         /\ loops'[l].pc = "gather" /\ loops'[l].ev = loops[l].ev
         /\ loops'[l].tasks[i].st # loops[l].tasks[i].st)
        => /\ loops'[l].tasks[i].st = "ok"
           /\ loops[l].ev.user \notin DOMAIN active_jobs'
           /\ JobsOf(jobs', loops[l].ev.user) = {}

DisableRemoves == [][DisableStep]_vars

DisableRemovesWitness ==
    \E l \in LoopIds : \E i \in 1..Len(loops[l].tasks) :
        /\ loops[l].pc = "gather"
        /\ loops[l].ev.kind = "reminder_settings_changed"
        /\ ~loops[l].ev.enabled
        /\ loops[l].tasks[i].cb = "h_reminder"
        /\ loops[l].tasks[i].st = "ok"
        /\ installed[loops[l].ev.user] # <<>>
        /\ loops[l].ev.user \notin DOMAIN active_jobs
        /\ JobsOf(jobs, loops[l].ev.user) = {}

\* C5: a user never has more than one job: at most one trigger under
\* reminder_<user_id>, whose time is the one installed last, and the registry entry
\* names that id.
OneJobPerUser ==
    \A u \in Users :
        /\ Cardinality(JobsOf(jobs, u)) <= 1
        /\ \A j \in JobsOf(jobs, u) : <<j.hour, j.minute>> = installed[u]
        /\ u \in DOMAIN active_jobs => active_jobs[u] = JobId(u)

\* Reconciliation installed 09:00 for the user and an event replaced it by 18:30.
OneJobPerUserWitness ==
    \E u \in Users :
        /\ recon.ok
        /\ \E k \in 1..Len(recon.rows) : recon.rows[k] = [user |-> u, time |-> T0900]
        /\ JobsOf(jobs, u) = {Job(JobId(u), 18, 30)}
        /\ u \in DOMAIN active_jobs

\* C6: at most one dispatch loop consumes the queue at any moment, whatever the
\* interleaving of start() and stop().
SingleConsumer == Cardinality({l \in LoopIds : loops[l].pc \in {"get", "gather"}}) <= 1

\* C7: stop() drains: once the loop has exited, no event enqueued before the stop()
\* (an event ahead of its None) is left undispatched in the queue.
StopDrains ==
    (~running /\ \A l \in LoopIds : ~Alive(l))
    => \A i, j \in 1..Len(queue) :
           (i < j /\ queue[j] = NoneItem) => ~IsEvent(queue[i])

\* C8: publish() appends the event and returns in every state of the bus, with no
\* loop or callback having to move; an event without subscribers is dropped at once
\* (no task is created for it, the loop does not wait on it).
PublishAny == \E k \in Kinds : Publish(k, 1, FALSE, NoTime)
PublishStep ==
    nPublished' # nPublished
    => /\ Len(queue') = Len(queue) + 1
       /\ SubSeq(queue', 1, Len(queue)) = queue
       /\ queue'[Len(queue')].id = nPublished + 1
       /\ loops' = loops
       /\ ran' = ran
NoWaitOnNobody ==
    /\ \A l \in LoopIds : loops[l].pc = "gather" => Len(loops[l].tasks) > 0
    /\ \A i \in 1..Len(dispatched) :
           dispatched[i].n = 0 => dispatched[i].id \in HandledIds
PublishNeverBlocks ==
    /\ [](nPublished < MaxEvents => ENABLED PublishAny)
    /\ []NoWaitOnNobody
    /\ [][PublishStep]_vars

\* A stopped bus holds an event, after an event without subscribers was dropped.
PublishNeverBlocksWitness ==
    /\ ~running /\ nLoops > 0
    /\ Len(dispatched) = 1 /\ dispatched[1].n = 0
    /\ queue # <<>> /\ IsEvent(queue[Len(queue)])

\* C9: no event is dispatched, and so no handler runs, until ReminderService.start()
\* has finished its reconciliation pass.
NoHandlerBeforeReconciled ==
    svc # "started" =>
        /\ dispatched = <<>>
        /\ \A l \in LoopIds : loops[l].pc # "gather"

NoHandlerBeforeReconciledWitness ==
    /\ svc = "started"
    /\ recon.ok /\ recon.rows # <<>>
    /\ Len(dispatched) > 0
    /\ \E l \in LoopIds : loops[l].pc = "gather"

\* C10: the reconciliation pass installs a job for every user whose stored settings
\* are well formed and enabled, whatever the rows of the other users look like.
Installable(row) ==
    /\ row.shape = "object"
    /\ row.enabled
    /\ TimeParses(TimeOf(row))
    /\ CronAccepts(TimeOf(row)[1].val, TimeOf(row)[2].val)
ReconcileIsolatesFailures ==
    (svc = "started" /\ nWrites = 0)
    => \A u \in Users :
           Installable(db[u]) =>
               /\ u \in DOMAIN active_jobs
               /\ JobsOf(jobs, u) = {Job(JobId(u), TimeOf(db[u])[1].val, TimeOf(db[u])[2].val)}

\* C11: reconciliation is idempotent: over an unchanged store, a second run of
\* initialize_user_reminders leaves the registry and the triggers of the first run
\* (same users, same times, one trigger per user), from whatever registry the first
\* run started; in particular a second run right after the startup pass changes
\* nothing.
SecondPassSame ==
    LET got   == GetAllUsersWithReminders(db)
        once  == InitializeUserReminders(CurrentReg, got)
        twice == InitializeUserReminders(once, got)
    IN /\ twice = once
       /\ \A u \in Users : Cardinality(JobsOf(twice.js, u)) <= 1
ReconcileIdempotent ==
    /\ SecondPassSame
    /\ (svc = "started" /\ nWrites = 0)
          => InitializeUserReminders(CurrentReg, GetAllUsersWithReminders(db)) = CurrentReg

\* The startup pass installed a job for both users over a store it could read.
ReconcileIdempotentWitness ==
    /\ svc = "started" /\ nWrites = 0
    /\ recon.ok /\ Len(recon.rows) = 2
    /\ DOMAIN active_jobs = Users
    /\ Cardinality(jobs) = 2

\* The settings a handler read name a time a trigger can have: when they enable the
\* reminder, their reminder time is one the trigger accepts.
Acceptable(st) ==
    (st.found /\ st.lp.enabled)
        => /\ TimeParses(TimeOf(st.lp))
           /\ CronAccepts(TimeOf(st.lp)[1].val, TimeOf(st.lp)[2].val)
\* Preferences that are a JSON object, as every writer of the program stores them.
ObjectPrefs(st) == st.found => st.lp.shape = "object"

\* Task i of loop l, a callback cb, goes from state `from` to done in this step.
Finishes(l, i, cb, from) ==
    /\ loops[l].pc = "gather"
    /\ loops[l].tasks[i].cb = cb
    /\ loops[l].tasks[i].st = from
    /\ loops'[l].pc = "gather" /\ loops'[l].ev = loops[l].ev
    /\ loops'[l].tasks[i].st = "ok"

\* User u ends the step with exactly the job of time t, resp. with no job.
HasJobAt(u, t) ==
    /\ u \in DOMAIN active_jobs' /\ active_jobs'[u] = JobId(u)
    /\ JobsOf(jobs', u) = {Job(JobId(u), t[1].val, t[2].val)}
HasNoJob(u) ==
    /\ u \notin DOMAIN active_jobs'
    /\ JobsOf(jobs', u) = {}
OthersUntouched(u) ==
    \A x \in Users \ {u} :
        /\ JobsOf(jobs', x) = JobsOf(jobs, x)
        /\ (x \in DOMAIN active_jobs') = (x \in DOMAIN active_jobs)

\* What the general path leaves for user u on settings st.
GeneralOutcome(u, st) ==
    /\ IF st.found /\ st.lp.enabled
       THEN HasJobAt(u, TimeOf(st.lp))
       ELSE /\ HasNoJob(u)
            /\ u \notin DOMAIN active_jobs
                  => active_jobs' = active_jobs /\ jobs' = jobs
    /\ OthersUntouched(u)

\* C12: when the handler of a user_settings_updated event for u finishes, u has a
\* job exactly if the settings it read exist and have the reminder enabled, and the
\* trigger is then at the persisted time (09:00 when the row names none); otherwise
\* u has no job, and when u had none nothing changes.  No other user is touched.
GeneralPathStep ==
    \A l \in LoopIds : \A i \in 1..Len(loops[l].tasks) :
        (Finishes(l, i, "h_settings", "apply") /\ Acceptable(loops[l].tasks[i].snap))
        => GeneralOutcome(loops[l].ev.user, loops[l].tasks[i].snap)

GeneralPath == [][GeneralPathStep]_vars

\* The general path has removed the 09:00 job of a user whose row now says disabled,
\* while the other user keeps a job.
GeneralPathWitness ==
    \E l \in LoopIds : \E i \in 1..Len(loops[l].tasks) :
        /\ loops[l].pc = "gather"
        /\ loops[l].tasks[i].cb = "h_settings"
        /\ loops[l].tasks[i].st = "ok"
        /\ loops[l].tasks[i].snap.found
        /\ ~loops[l].tasks[i].snap.lp.enabled
        /\ installed[loops[l].ev.user] = <<9, 0>>
        /\ loops[l].ev.user \notin DOMAIN active_jobs
        /\ JobsOf(jobs, loops[l].ev.user) = {}
        /\ jobs # {}

\* C13: the handler of a reminder_settings_changed event with reminder_enabled true
\* and a time finishes in its first run, with no storage read, and leaves the user
\* with exactly one job at the time of the event; with reminder_enabled true and no
\* time its first run ends in the storage read of the general path, and it finishes
\* as the general path does on the settings read.
EnabledEvent(l, i) ==
    /\ loops[l].pc = "gather"
    /\ loops[l].ev.kind = "reminder_settings_changed"
    /\ loops[l].ev.enabled
    /\ loops[l].tasks[i].cb = "h_reminder"
Moves(l, i) ==
    /\ loops'[l].pc = "gather" /\ loops'[l].ev = loops[l].ev
    /\ loops'[l].tasks[i].st # loops[l].tasks[i].st
FastPathStep ==
    \A l \in LoopIds : \A i \in 1..Len(loops[l].tasks) :
        (EnabledEvent(l, i) /\ Moves(l, i))
        => LET ev == loops[l].ev IN
           IF ev.time # NoTime
           THEN /\ loops[l].tasks[i].st = "created"
                /\ loops'[l].tasks[i].st = "ok"
                /\ HasJobAt(ev.user, ev.time)
                /\ OthersUntouched(ev.user)
           ELSE IF loops[l].tasks[i].st = "created"
           THEN /\ loops'[l].tasks[i].st = "apply"
                /\ loops'[l].tasks[i].snap = GetUserSettings(db[ev.user])
                /\ active_jobs' = active_jobs /\ jobs' = jobs
           ELSE /\ loops'[l].tasks[i].st = "ok"
                /\ (Acceptable(loops[l].tasks[i].snap) /\ ObjectPrefs(loops[l].tasks[i].snap))
                      => GeneralOutcome(ev.user, loops[l].tasks[i].snap)

FastPathInstalls == [][FastPathStep]_vars

\* An event that carried no time made the handler read the store, where it found the
\* reminder enabled at 18:30, and the user has that job.
FastPathInstallsWitness ==
    \E l \in LoopIds : \E i \in 1..Len(loops[l].tasks) :
        /\ EnabledEvent(l, i)
        /\ loops[l].ev.time = NoTime
        /\ loops[l].tasks[i].st = "ok"
        /\ loops[l].tasks[i].snap = Settings(TRUE, Prefs(TRUE, T1830))
        /\ JobsOf(jobs, loops[l].ev.user) = {Job(JobId(loops[l].ev.user), 18, 30)}

\* ---------------------------------------------------------------- C14
\* The cap a configured target sets: min(daily_target, 20), and no item below zero.
CapOf(tgt) == Max(0, Min(tgt.val, HardCeiling))
\* C14: for every configured daily target (0, negative and above 20 included) the
\* number of items get_due_words_for_user selects never exceeds min(daily_target, 20);
\* with 25 due items and a target of 30 it selects exactly 20.
HardCeilingHolds ==
    \A p \in picked :
        (p.snap.found /\ p.snap.lp.shape = "object" /\ p.tgt.kind = "int") =>
            /\ Len(p.sel) <= CapOf(p.tgt)
            /\ (Len(p.due) = 25 /\ p.tgt.val = 30) => Len(p.sel) = 20

\* ---------------------------------------------------------------- C15
\* The runs of user u's job for the scheduled instant t that the scheduler handled.
RunsOf(u, t) == {r \in runs : r.user = u /\ r.run = t}
\* C15: a daily trigger whose scheduled instant was missed fires once for that day
\* when it becomes able to run within 300 seconds of the instant, and not at all when
\* it becomes able to run later; a scheduled instant is handled once, so a missed
\* firing is never kept for later.  (A run that finds the previous call of the same
\* job still going is not able to run.)
MisfireWindow ==
    /\ \A r \in runs :
          /\ r.at >= r.run
          /\ r.did # "skipped" => (r.did = "fired" <=> (r.at - r.run) * 60 <= 300)
    /\ \A r1 \in runs, r2 \in runs : (r1.user = r2.user /\ r1.run = r2.run) => r1 = r2
    /\ \A f \in fires : f.from = "job" =>
          \E r \in runs : r.user = f.user /\ r.run = f.at /\ r.did = "fired"
    /\ nFires = Cardinality({r \in runs : r.did = "fired"})
    /\ \A j \in jobs : \A r \in runs : r.user = UserOfJob(j) => j.next > r.run
\* A 09:00 job ran at 09:04 of a day and fired, another (or the same on another day)
\* became able to run at 09:10 or later and was skipped for that day, and that day
\* has ended.
MisfireWindowWitness ==
    /\ \E r \in runs : r.at - r.run = 4 /\ r.did = "fired"
    /\ \E r \in runs : r.at - r.run >= 10 /\ r.did = "missed" /\ DayOf(clock) > DayOf(r.run)

\* ---------------------------------------------------------------- C16
\* The scheduled reminder sends attempted for user u for day d.
SendsOn(u, d) == {x \in sends : x.user = u /\ x.day = d}
\* C16: for each user at most one scheduled reminder send is attempted per calendar
\* day, over any installs, replacements and firings of all the scheduled jobs the
\* process starts.
AtMostOncePerDay ==
    \A u \in Users : \A d \in 0..MaxDays : Cardinality(SendsOn(u, d)) <= 1

\* ---------------------------------------------------------------- C17
\* How often callback c is subscribed in the list seq.
Count(seq, c) == Cardinality({i \in 1..Len(seq) : seq[i] = c})
\* unsubscribe(k, c) returns in this step: a subscription of c for k is gone.
Unsubscribed(k, c) == Count(subscribers'[k], c) < Count(subscribers[k], c)
\* Loop l dequeues an event in this step and invokes callbacks for it.
Dequeues(l) == loops'[l].pc = "gather" /\ loops'[l].ev # loops[l].ev
\* C17: once unsubscribe(kind, callback) has returned, the callback is not invoked for
\* any event of that kind dequeued afterwards, however often it had been subscribed:
\* the returning unsubscribe leaves no subscription of the callback for the kind, and
\* a dequeued event invokes only callbacks subscribed for its kind at that moment.
UnsubscribeStep ==
    /\ \A k \in Kinds : \A c \in ClientCallbacks :
          Unsubscribed(k, c) => Count(subscribers'[k], c) = 0
    /\ \A l \in LoopIds : Dequeues(l) =>
          \A i \in 1..Len(loops'[l].tasks) :
              Count(SubscribersOf(loops'[l].ev.kind), loops'[l].tasks[i].cb) > 0
UnsubscribeBeforeNextDispatch == [][UnsubscribeStep]_vars

\* ---------------------------------------------------------------- C18
\* The events whose dispatch ends in this step without a callback to wait for.
JustDispatched == {dispatched'[i] : i \in (Len(dispatched) + 1)..Len(dispatched')}
\* C18: after a USER_DELETED event for user u has been published and dispatched, u has
\* no job in the registry and no trigger in the scheduler.
DeletionStep ==
    \A e \in JustDispatched : e.kind = "user_deleted" =>
        /\ e.user \notin DOMAIN active_jobs'
        /\ JobsOf(jobs', e.user) = {}
UserDeletedDestroysJob == [][DeletionStep]_vars

\* ---------------------------------------------------------------- C19
\* C19: the dispatch loop ends only by dequeuing the None that a stop() enqueued (no
\* callback exception and no other condition ends it), so while the bus is started
\* and stop() has not been called since, a consumer is alive.
LoopEndsOnlyBySentinel ==
    /\ \A l \in LoopIds : loops[l].pc = "done" => loops[l].exit = "sentinel"
    /\ running => \E l \in LoopIds : Alive(l)

\* ---------------------------------------------------------------- C20
\* The events still waiting in the queue.
QueuedIds == {queue[i].id : i \in {k \in 1..Len(queue) : IsEvent(queue[k])}}
\* Nothing can move: no loop step, no callback step, no pending stop().
BusAtRest ==
    /\ \A l \in LoopIds : loops[l].pc \in {"none", "done"} \/ (loops[l].pc = "get" /\ queue = <<>>)
    /\ stopping = {}
\* C20: every published event is dequeued exactly once by the dispatch loop: never
\* delivered twice to the same subscription, never left undelivered (once a started
\* bus is at rest no published event is waiting), and not retained after its fan-out.
ExactlyOnce ==
    /\ \A i, j \in 1..Len(dispatched) : dispatched[i].id = dispatched[j].id => i = j
    /\ DispatchedIds \cap QueuedIds = {}
    /\ \A x \in ran, y \in ran : (x[1] = y[1] /\ x[2] = y[2]) => x = y
    /\ \A l \in LoopIds : loops[l].pc # "gather" => loops[l].ev = NoneItem
    /\ (running /\ BusAtRest) => QueuedIds = {}

\* ---------------------------------------------------------------- C21
\* The run of the scheduler that started call n of send_reminder_to_user.
RunOfCall(n) == {r \in runs : r.did = "fired" /\ r.n = n}
\* Call n is over.
CallOver(n) == \A f \in fires : f.n # n
\* C21: when a trigger fires for a user whose persisted settings are absent or have
\* reminders off at that moment, the call sends no message of any kind to the user:
\* every send of a call belongs to a run that found the settings present and on.
RecheckAtFire ==
    \A x \in sends : x.by = "job" =>
        \E r \in RunOfCall(x.n) :
            r.user = x.user /\ r.snap.found /\ r.snap.lp.enabled
\* A user turned reminders off, the event of the request is still in the queue and
\* the job still installed; the job fired, read the settings, and the call is over
\* without a send.
RecheckAtFireWitness ==
    \E r \in runs :
        /\ r.did = "fired" /\ r.snap.found /\ ~r.snap.lp.enabled
        /\ CallOver(r.n)
        /\ \A x \in sends : x.n # r.n
        /\ JobsOf(jobs, r.user) # {}
        /\ \E i \in 1..Len(queue) : queue[i].user = r.user

\* ---------------------------------------------------------------- C22
\* The sends of the calls of send_reminder_to_user that failed.
FailedSends == {x \in sends : x.by = "job" /\ ~x.ok}
FailedSendState ==
    /\ \A x \in sends, y \in sends : (x.by = "job" /\ y.by = "job" /\ x.n = y.n) => x = y
    /\ \A x \in FailedSends :
          /\ CallOver(x.n)
          /\ x.user \in DOMAIN active_jobs
          /\ \E j \in jobs : /\ UserOfJob(j) = x.user
                              /\ \A r \in RunOfCall(x.n) : j.next >= r.run + 1440
FailedSendStep ==
    FailedSends' # FailedSends => (jobs' = jobs /\ active_jobs' = active_jobs)
\* C22: a failed send during a firing is not fatal and not retried: the call makes at
\* most one send attempt and returns, the registry and the user's trigger are as
\* before, and the trigger stays scheduled for the next day.
FailedSendHarmless == []FailedSendState /\ [][FailedSendStep]_vars
\* A send failed on one day and the same user's job fired again on the next.
FailedSendHarmlessWitness ==
    \E x \in FailedSends : \E r \in runs :
        r.user = x.user /\ DayOf(r.run) = x.day + 1 /\ r.did = "fired"

\* ---------------------------------------------------------------- C23
\* Task i of loop l resumes in this step from a read that raised.
ResumesFromFailure(l, i) ==
    /\ i \in 1..Len(loops[l].tasks)
    /\ loops[l].tasks[i].st = "apply"
    /\ loops[l].tasks[i].snap = ReadFailed
    /\ loops'[l].tasks # loops[l].tasks
ReadFailureStep ==
    \A l \in LoopIds, i \in 1..MaxSubs : ResumesFromFailure(l, i) =>
        /\ jobs' = jobs
        /\ active_jobs' = active_jobs
        /\ loops'[l].pc = "gather"
        /\ loops'[l].tasks[i].st = "ok"
\* C23: a storage read failure inside an event handler corrupts nothing: the handler
\* returns normally, the registry and the triggers of every user are as before, and
\* the loop goes on to the next queued event.
ReadFailureHarmless == [][ReadFailureStep]_vars
\* A handler whose read failed has returned, the user of its event still has the job
\* the user had, and the next event is waiting in the queue.
ReadFailureHarmlessWitness ==
    \E l \in LoopIds :
        /\ loops[l].pc = "gather"
        /\ \E i \in 1..Len(loops[l].tasks) :
              loops[l].tasks[i].snap = ReadFailed /\ loops[l].tasks[i].st = "ok"
        /\ JobsOf(jobs, loops[l].ev.user) # {}
        /\ \E k \in 1..Len(queue) : IsEvent(queue[k])

\* ---------------------------------------------------------------- C24
\* The pass of a fresh process is over and no settings request has been served yet.
FreshlyReconciled == svc = "started" /\ nWrites = 0
\* C24: after the reconciliation pass of a freshly started process a user has a job if
\* and only if the user's persisted settings have reminders on, and the job's time is
\* the persisted reminder time, whatever was written while the process was down.
\* (Stated for users whose own row is well formed and whose time a trigger can have.)
RestartRecovery ==
    FreshlyReconciled =>
        \A u \in Users : WellShaped(db[u]) =>
            /\ Installable(db[u]) =>
                  /\ u \in DOMAIN active_jobs
                  /\ JobsOf(jobs, u) = {Job(JobId(u), TimeOf(db[u])[1].val, TimeOf(db[u])[2].val)}
            /\ ~(db[u].shape = "object" /\ db[u].enabled) =>
                  /\ u \notin DOMAIN active_jobs
                  /\ JobsOf(jobs, u) = {}

\* ---------------------------------------------------------------- C25
\* The events that have a callback task created and not yet finished or failed.
EventsRunning ==
    {loops[l].ev.id : l \in {k \in LoopIds : /\ loops[k].pc = "gather"
                                               /\ \E i \in 1..Len(loops[k].tasks) :
                                                      ~Finished(loops[k].tasks[i])}}
\* A loop lets go of an event only when all its callbacks have finished or failed.
JoinsBeforeLeaving ==
    \A l \in LoopIds : LeavesEvent(l) =>
        \A i \in 1..Len(loops[l].tasks) : Finished(loops[l].tasks[i])
\* C25: no callback for the next event starts until every callback fanned out for the
\* event before has finished or failed; callbacks of two different events never run
\* concurrently.
JoinBeforeAdvancing == [](Cardinality(EventsRunning) <= 1) /\ [][JoinsBeforeLeaving]_vars

\* ---------------------------------------------------------------- C26
\* The handler tasks that hold settings read for user u and have not yet applied them.
OpenReads(u) ==
    {<<l, i>> \in LoopIds \X (1..MaxSubs) :
        /\ i <= Len(loops[l].tasks)
        /\ loops[l].tasks[i].st = "apply"
        /\ loops[l].ev.user = u}

\* Reconciliation has read the settings and not yet installed from them.
ReconcileOpen == svc = "installing"

\* Task i of loop l installs or removes in this step.
Mutates(l, i) ==
    /\ i <= Len(loops[l].tasks)
    /\ loops[l].tasks[i].cb \in {"h_settings", "h_reminder"}
    /\ loops[l].tasks[i].st \in {"created", "apply"}
    /\ i <= Len(loops'[l].tasks)
    /\ loops'[l].tasks[i].st = "ok"

PerUserExclusionStep ==
    /\ \A l \in LoopIds, i \in 1..MaxSubs :
          Mutates(l, i) =>
             /\ OpenReads(loops[l].ev.user) \ {<<l, i>>} = {}
             /\ ~ReconcileOpen
    /\ (ReconcileOpen /\ svc' = "started") => \A u \in Users : OpenReads(u) = {}

\* C26: an install or remove for a user (by an event handler or by reconciliation) is
\* never applied while another read-then-mutate sequence for the same user is open,
\* and none is open for two holders at once.
PerUserExclusion ==
    /\ [](\A u \in Users :
            Cardinality(OpenReads(u)) + (IF ReconcileOpen THEN 1 ELSE 0) <= 1)
    /\ [][PerUserExclusionStep]_vars

\* A handler holds settings it read for a user while a later write for the same user
\* has already been published and waits in the queue.
PerUserExclusionWitness ==
    \E u \in Users :
       /\ OpenReads(u) # {}
       /\ \E i \in 1..Len(queue) : queue[i].user = u
       /\ \E l \in LoopIds, i \in 1..MaxSubs :
             <<l, i>> \in OpenReads(u) /\ loops[l].tasks[i].snap # GetUserSettings(db[u])

\* ---------------------------------------------------------------- C27
\* A writer of the general path: update_user_settings commits the new
\* learning_preferences and the writer has publish_user_settings_updated still to call.
WriterWrite(u, en, t) ==
    /\ ServerUp
    /\ nWrites < MaxWrites
    /\ nWrites' = nWrites + 1
    /\ db' = [db EXCEPT ![u] = WrittenRow(@, TRUE, en, t)]
    /\ daily_target' = [daily_target EXCEPT ![u] = WrittenTarget(@, db[u], TRUE)]
    /\ reqs' = reqs \cup {[w |-> nWrites + 1, user |-> u, withPrefs |-> TRUE,
                           enabled |-> en, time |-> t]}
    /\ UNCHANGED busVars
    /\ UNCHANGED <<active_jobs, jobs, installed, svc, recon>>
    /\ UNCHANGED <<nPublished, nLoops, dispatched, ran>>
    /\ UNCHANGED <<clock, vocabulary, legacy_next, fires, nFires, runs, picked, sends,
                   constructed>>

\* publish_user_settings_updated(user_id): the event names the user and nothing else
\* the handler uses.
NotifyUpdated(r) ==
    /\ r \in reqs
    /\ reqs' = reqs \ {r}
    /\ queue' = Put(queue, Event(nPublished + 1, "user_settings_updated", r.user,
                                 FALSE, NoTime))
    /\ nPublished' = nPublished + 1
    /\ UNCHANGED <<subscribers, running, processor_task, loops, stopping>>
    /\ UNCHANGED <<db, active_jobs, jobs, installed, svc, recon>>
    /\ UNCHANGED <<nLoops, nWrites, dispatched, ran>>
    /\ UNCHANGED fireVars

\* The started service with writers that only use the general path.
NextGeneral ==
    \/ ServiceStart
    \/ ReconcileRead
    \/ ReconcileInstall
    \/ \E u \in Users, en \in BOOLEAN, t \in ApiTimes : WriterWrite(u, en, t)
    \/ \E r \in reqs : NotifyUpdated(r)
    \/ Dispatch
    \/ \E l \in LoopIds, i \in 1..MaxSubs : HandlerStart(l, i)
    \/ \E l \in LoopIds, i \in 1..MaxSubs : HandlerApply(l, i)

SpecGeneral == Init /\ [][NextGeneral]_vars

\* The users some dispatched event was about.
Notified(u) == \E i \in 1..Len(dispatched) : dispatched[i].user = u

\* The job of u is what the row of u asks for.
MatchesRow(u) ==
    IF db[u].shape = "object" /\ db[u].enabled
    THEN /\ u \in DOMAIN active_jobs
         /\ Cardinality(JobsOf(jobs, u)) = 1
         /\ \A j \in JobsOf(jobs, u) :
               <<j.hour, j.minute>> = <<TimeOf(db[u])[1].val, TimeOf(db[u])[2].val>>
    ELSE /\ u \notin DOMAIN active_jobs
         /\ JobsOf(jobs, u) = {}

\* C27: when every write is followed by a user_settings_updated event and no
\* reminder_settings_changed event is published, then once every write has published
\* and the queue is fully dispatched, each written user's job (presence and time)
\* matches the settings persisted last.
GeneralConvergence ==
    Quiescent => \A u \in Users : Notified(u) => MatchesRow(u)

\* Two writes for one user, one enabling at 18:30 and the last one disabling; both
\* events are dispatched, the job installed in between is gone, and the other user
\* holds a job.
GeneralConvergenceWitness ==
    /\ Quiescent
    /\ nWrites = MaxWrites
    /\ Len(dispatched) = MaxWrites
    /\ \E u \in Users :
          /\ \A i \in 1..Len(dispatched) : dispatched[i].user = u
          /\ db[u] = Prefs(FALSE, T0900)
          /\ installed[u] = <<18, 30>>
          /\ JobsOf(jobs, u) = {}
    /\ jobs # {}

\* ---------------------------------------------------------------- C28
\* The place of a word in the list the words read returned.
PlaceIn(vocab, w) == CHOOSE i \in 1..Len(vocab) : vocab[i] = w
\* The words of a list whose review date is set and not after today.
DueToday(vocab, today) ==
    {vocab[i] : i \in {k \in 1..Len(vocab) : vocab[k].has /\ vocab[k].day <= today}}

DueReadFails(f) ==
    /\ f \in fires
    /\ f.st = "words"
    /\ f.from = "job"
    /\ picked' = picked \cup {[n |-> f.n, user |-> f.user, due |-> <<>>,
                               snap |-> f.snap, tgt |-> f.tgt, sel |-> <<>>]}
    /\ fires' = (fires \ {f}) \cup {[f EXCEPT !.st = "send", !.what = MessageKind(<<>>)]}
    /\ UNCHANGED <<busVars, svcVars, histVars>>
    /\ UNCHANGED <<clock, vocabulary, daily_target, legacy_next, nFires, runs, sends,
                   constructed>>

\* The reminder jobs over one day, for users with and without words and with stored
\* targets that cut the selection to nothing (0) or not (the default of the API).
SendRows == {Absent, Prefs(TRUE, T0900), Prefs(FALSE, T0900)}
SendTargets == {Target(0), Target(ApiDefaultTarget)}

InitSend ==
    /\ InitBus
    /\ InitHist
    /\ InitService
    /\ InitFire
    /\ db \in [Users -> SendRows]
    /\ vocabulary = [u \in Users |-> IF u = 1 THEN FireWords ELSE <<>>]
    /\ daily_target \in [Users -> SendTargets \cup {MissingTarget}]
    /\ \A u \in Users : (daily_target[u] = MissingTarget) <=> (db[u].shape # "object")

NextSend ==
    \/ ServiceStart
    \/ ReconcileRead
    \/ ReconcileInstall
    \/ \E t \in DayInstants : Tick(t)
    \/ ProcessJobs
    \/ \E f \in fires : FireCheck(f)
    \/ \E f \in fires : DueRead(f)
    \/ \E f \in fires : DueReadFails(f)
    \/ \E f \in fires : DueReturn(f)
    \/ \E f \in fires, ok \in BOOLEAN : FireSend(f, ok)

SpecSend == InitSend /\ [][NextSend]_vars

\* The send attempts of call n of send_reminder_to_user.
SendsOf(n) == {x \in sends : x.by = "job" /\ x.n = n}

\* C29: a firing that finds the user's reminder enabled makes exactly one send
\* attempt by the time its call is over and never more than one; the attempt is the
\* encouragement message exactly when the capped selection is empty, and the due-item
\* reminder otherwise.
OneSendPerFiring ==
    \A r \in runs :
        (r.did = "fired" /\ r.snap.found /\ r.snap.lp.shape = "object"
            /\ r.snap.lp.enabled)
        => /\ Cardinality(SendsOf(r.n)) <= 1
           /\ CallOver(r.n) => Cardinality(SendsOf(r.n)) = 1
           /\ \A x \in SendsOf(r.n) :
                 \E p \in picked :
                    /\ p.n = r.n
                    /\ x.what = IF Len(p.sel) = 0 THEN "encouragement" ELSE "reminder"

\* A finished firing of a user with due words whose stored target cuts the selection to
\* nothing: the one attempt was the encouragement message.
OneSendPerFiringWitness ==
    \E r \in runs, p \in picked :
        /\ r.did = "fired" /\ r.snap.found /\ r.snap.lp.enabled
        /\ CallOver(r.n)
        /\ p.n = r.n /\ Len(p.due) > 0 /\ Len(p.sel) = 0
        /\ SendsOf(r.n) # {}
        /\ \A x \in SendsOf(r.n) : x.what = "encouragement"

\* ---------------------------------------------------------------- C30
\* Event(event_type, user_id): no timestamp is given, so __post_init__ sets it to
\* time.time() of the construction.  `published` is history: the time of the publish()
\* the object was passed to, -1 before.
StampedEvent(id, kind, user, now) ==
    [id |-> id, kind |-> kind, user |-> user, enabled |-> FALSE, time |-> NoTime,
     timestamp |-> now, published |-> -1]

\* A client constructs an Event and keeps it.
Construct(k, u) ==
    /\ nPublished + Cardinality(constructed) < MaxEvents
    /\ constructed' = constructed \cup
          {StampedEvent(nPublished + Cardinality(constructed) + 1, k, u, clock)}
    /\ UNCHANGED <<busVars, svcVars, histVars>>
    /\ UNCHANGED <<clock, vocabulary, daily_target, legacy_next, fires, nFires, runs,
                   picked, sends>>

\* publish(event): the object goes on the queue as it is.
PublishEvent(e) ==
    /\ e \in constructed
    /\ constructed' = constructed \ {e}
    /\ queue' = Put(queue, [e EXCEPT !.published = clock])
    /\ nPublished' = nPublished + 1
    /\ UNCHANGED <<subscribers, running, processor_task, loops, stopping>>
    /\ UNCHANGED svcVars
    /\ UNCHANGED <<nLoops, nWrites, dispatched, ran>>
    /\ UNCHANGED <<clock, vocabulary, daily_target, legacy_next, fires, nFires, runs,
                   picked, sends>>

\* The bus with clients that construct events, publish them at a time of their choice
\* and subscribe callbacks, while time passes.
NextStamp ==
    \/ BusStart
    \/ \E k \in Kinds, c \in ClientCallbacks : Subscribe(k, c)
    \/ \E k \in Kinds : Construct(k, 1)
    \/ \E e \in constructed : PublishEvent(e)
    \/ \E t \in DayInstants : Tick(t)
    \/ Dispatch
    \/ \E l \in LoopIds, i \in 1..MaxSubs : CbRun(l, i)

SpecStamp == InitBusOnly /\ [][NextStamp]_vars

\* C30: the timestamp of an event that subscribers are handed is the time of the
\* publish() it was passed to, also when the Event was constructed earlier.
TimestampIsPublishTime ==
    \A l \in LoopIds :
        (loops[l].pc = "gather" /\ loops[l].tasks # <<>>)
            => loops[l].ev.timestamp = loops[l].ev.published

\* What the code does: the timestamp subscribers are handed is never later than the
\* publish(), and publish() and the queue leave it as it was constructed.
TimestampUntouchedStep ==
    /\ \A e \in constructed :
          e \notin constructed'
             => /\ Len(queue') = Len(queue) + 1
                /\ queue'[Len(queue')].timestamp = e.timestamp
    /\ \A i \in 1..Len(queue) : \A j \in 1..Len(queue') :
          queue'[j].id = queue[i].id => queue'[j] = queue[i]
TimestampIsConstructionTime ==
    /\ [](\A l \in LoopIds :
            loops[l].pc = "gather" => loops[l].ev.timestamp <= loops[l].ev.published)
    /\ [][TimestampUntouchedStep]_vars

\* ---------------------------------------------------------------- C31
\* C31: active_jobs and the scheduler agree at every moment: a user is a key of
\* active_jobs exactly when the job store holds a job with id reminder_<user_id>, and
\* the entry is that id.
RegistryAgrees ==
    \A u \in Users :
        /\ (u \in DOMAIN active_jobs) <=> (\E j \in jobs : j.id = JobId(u))
        /\ u \in DOMAIN active_jobs => active_jobs[u] = JobId(u)

\* After reconciliation and a handled event: one user has entry and job, the other was
\* enabled with a time that does not parse and has neither.
RegistryAgreesWitness ==
    /\ svc = "started"
    /\ dispatched # <<>>
    /\ \A l \in LoopIds : loops[l].pc # "gather"
    /\ \E u, v \in Users :
          /\ db[u] = Prefs(TRUE, TJunk)
          /\ u \notin DOMAIN active_jobs
          /\ JobsOf(jobs, u) = {}
          /\ v \in DOMAIN active_jobs
          /\ JobsOf(jobs, v) # {}

\* ---------------------------------------------------------------- C32
\* The reminder_time texts a caller can pass: two that install, one that int() takes
\* and CronTrigger rejects, and two that do not parse.
CallTimes == {T0900, T1830, T2500, TJunk, TShort}
\* The texts with which the install fails.
FailingTimes == {t \in CallTimes : ~TimeParses(t) \/ ~CronAccepts(t[1].val, t[2].val)}

\* await setup_user_reminder(u, t): the call does not suspend, and returns normally.
SetupCall(u, t) ==
    /\ SetReg(SetupUserReminder(CurrentReg, u, t))
    /\ UNCHANGED busVars
    /\ UNCHANGED <<db, svc, recon, reqs>>
    /\ UNCHANGED histVars
    /\ UNCHANGED fireVars

\* await remove_user_reminder(u).
RemoveCall(u) ==
    /\ SetReg(RemoveUserReminder(CurrentReg, u))
    /\ UNCHANGED busVars
    /\ UNCHANGED <<db, svc, recon, reqs>>
    /\ UNCHANGED histVars
    /\ UNCHANGED fireVars

\* The registry operations alone: a ReminderService whose callers install and remove
\* with any time text, while time passes.
NextInstall ==
    \/ \E u \in Users, t \in CallTimes : SetupCall(u, t)
    \/ \E u \in Users : RemoveCall(u)
    \/ \E t \in Instants : Tick(t)

SpecInstall == InitBusOnly /\ [][NextInstall]_vars

\* C32: a setup_user_reminder call that fails (the time does not parse, or the trigger
\* rejects it) for a user who has a job leaves that user's registry entry and trigger,
\* and everything else, as they were.
FailedInstallStep ==
    \A u \in Users, t \in FailingTimes :
        (u \in DOMAIN active_jobs /\ SetupCall(u, t))
            => /\ active_jobs' = active_jobs
               /\ jobs' = jobs
FailedInstallChangesNothing == [][FailedInstallStep]_vars

\* What the code keeps of it: the failing call returns, and touches no other user.
FailedInstallOthersStep ==
    \A u \in Users, t \in FailingTimes :
        SetupCall(u, t)
            => /\ \A v \in Users \ {u} :
                     /\ JobsOf(jobs', v) = JobsOf(jobs, v)
                     /\ (v \in DOMAIN active_jobs') = (v \in DOMAIN active_jobs)
               /\ JobsOf(jobs', u) = {}
               /\ u \notin DOMAIN active_jobs'
FailedInstallRemoves == [][FailedInstallOthersStep]_vars

\* ---------------------------------------------------------------- C33
\* start() called when no stop() call is still waiting for the loop: every start()
\* after the first follows a stop() that has returned.
StartAfterStop ==
    /\ stopping = {}
    /\ BusStart

\* The bus has been started again and is running.
Restarted == running /\ nLoops >= 2

\* publish(event) of a client whose events are for user 2 once the bus has been
\* restarted and for user 1 before, so that the later ones can be told apart.
PublishMarked(k) == Publish(k, IF Restarted THEN 2 ELSE 1, FALSE, NoTime)

AnyCallback == \E l \in LoopIds, i \in 1..MaxSubs : CbRun(l, i)

\* The bus with clients that stop it and start it again after the stop() returned.
NextRestart ==
    \/ StartAfterStop
    \/ BusStop
    \/ \E l \in LoopIds : StopReturn(l)
    \/ \E k \in Kinds, c \in ClientCallbacks : Subscribe(k, c)
    \/ \E k \in Kinds : PublishMarked(k)
    \/ Dispatch
    \/ AnyCallback

\* The event loop runs every task that is ready, and callbacks terminate.
SpecRestart ==
    /\ InitBusOnly
    /\ [][NextRestart]_vars
    /\ WF_vars(Dispatch)
    /\ WF_vars(AnyCallback)

\* C33: on a bus started again after a returned stop(), every event published from
\* then on is eventually handed to _handle_event, as long as the bus is not stopped
\* again, whatever the queue held when stop() was called.
RestartDelivers ==
    \A id \in 1..MaxEvents :
        (running /\ \E i \in 1..Len(queue) : queue[i].id = id /\ queue[i].user = 2)
        ~> (~running \/ \E i \in 1..Len(dispatched) : dispatched[i].id = id)

\* What the code does deliver: while the loop of the running bus is alive, every
\* queued event is eventually handed to _handle_event or the bus is stopped.
DeliversWhileAlive ==
    \A id \in 1..MaxEvents :
        (running /\ \E i \in 1..Len(queue) : queue[i].id = id)
        ~> \/ ~running
           \/ \E i \in 1..Len(dispatched) : dispatched[i].id = id
           \/ \A l \in LoopIds : ~Alive(l)

\* ---------------------------------------------------------------- C34
\* A stop() call that waited for loop l returns in this step.
StopReturns(l) == l \in stopping /\ l \notin stopping'

\* Every callback found subscribed for an event that no loop holds any more has run.
NoCallbackPending ==
    \A i \in 1..Len(dispatched) :
        dispatched[i].id \in HandledIds =>
            \A j \in 1..dispatched[i].n :
                \E res \in {"ok", "failed"} : <<dispatched[i].id, j, res>> \in ran

StopSynchronousStep ==
    /\ \A l \in LoopIds :
          StopReturns(l)
             => /\ ~Alive(l)
                /\ loops[l].pc = "done"
                /\ \A i \in 1..Len(loops[l].tasks) : Finished(loops[l].tasks[i])
                /\ NoCallbackPending
    /\ (~running /\ ~running')
          => /\ Len(queue') <= Len(queue) \/ queue'[Len(queue')] # NoneItem
             /\ stopping' \subseteq stopping

\* C34: when a stop() made on a running bus returns, the loop it waited for has
\* exited and every callback that loop started has finished; on a bus that is not
\* running no step, a stop() included, puts a None on the queue or makes a stop()
\* wait.
StopSynchronous == [][StopSynchronousStep]_vars

\* A stop() has returned that was called while the loop waited in gather() on two
\* callbacks: the loop let go of the event with both run and left by the flag.
StopSynchronousWitness ==
    /\ ~running
    /\ stopping = {}
    /\ nLoops = 1
    /\ loops[1].pc = "done"
    /\ loops[1].exit = "stopped"
    /\ Len(dispatched) >= 1
    /\ dispatched[1].n = 2
    /\ \A j \in 1..2 : \E res \in {"ok", "failed"} : <<dispatched[1].id, j, res>> \in ran
    /\ \E k \in 1..Len(queue) : queue[k] = NoneItem

\* ---------------------------------------------------------------- C35
\* publish(event) of a client whose events are for user 1 as long as start() was
\* never called and for user 2 afterwards, so that the early ones can be told apart.
PublishTimed(k) == Publish(k, IF nLoops = 0 THEN 1 ELSE 2, FALSE, NoTime)

\* The bus with clients that publish before and after the first start().
NextPreStart ==
    \/ BusStart
    \/ BusStop
    \/ \E l \in LoopIds : StopReturn(l)
    \/ \E k \in Kinds, c \in ClientCallbacks : Subscribe(k, c)
    \/ \E k \in Kinds : PublishTimed(k)
    \/ Dispatch
    \/ AnyCallback

SpecPreStart ==
    /\ InitBusOnly
    /\ [][NextPreStart]_vars
    /\ WF_vars(Dispatch)
    /\ WF_vars(AnyCallback)

\* Before the first start() the queue holds every event published, in order.
PreStartKept ==
    nLoops = 0 => /\ Len(queue) = nPublished
                  /\ \A i \in 1..Len(queue) : queue[i].id = i

\* Early events are handed to _handle_event in their order of publication, and none
\* of them waits while a later event is handed over.
PreStartFirst ==
    /\ \A i, j \in 1..Len(dispatched) :
          (i < j /\ dispatched[j].user = 1)
             => dispatched[i].user = 1 /\ dispatched[i].id < dispatched[j].id
    /\ (\E j \in 1..Len(dispatched) : dispatched[j].user = 2)
          => \A i \in 1..Len(queue) : queue[i].user # 1

\* What holds of the early events as long as stop() is not called: they stay in the
\* queue until the first start(), are handed over in order ahead of later events, and
\* each of them is dispatched unless the bus is stopped first.
PreStartDeliveredWhileRunning ==
    /\ []PreStartKept
    /\ []PreStartFirst
    /\ \A id \in 1..MaxEvents :
          (running /\ nLoops = 1
              /\ \E i \in 1..Len(queue) : queue[i].id = id /\ queue[i].user = 1)
          ~> (~running \/ \E i \in 1..Len(dispatched) : dispatched[i].id = id)

\* C35: events published before the bus is started stay in the queue and, once the
\* first start() has been called, each of them is dispatched, in the order of
\* publication and ahead of every event published later.
PreStartDelivered ==
    /\ []PreStartKept
    /\ []PreStartFirst
    /\ \A id \in 1..MaxEvents :
          (nLoops = 1 /\ \E i \in 1..Len(queue) : queue[i].id = id /\ queue[i].user = 1)
          ~> (\E i \in 1..Len(dispatched) : dispatched[i].id = id)

\* An event published before the first start() was dispatched to a callback, which
\* ran, and after it an event published later.
PreStartDispatchSeen ==
    /\ Len(dispatched) = 2
    /\ dispatched[1].user = 1 /\ dispatched[1].n > 0
    /\ dispatched[2].user = 2
    /\ \E res \in {"ok", "failed"} : <<dispatched[1].id, 1, res>> \in ran
    /\ nLoops = 1

\* ---------------------------------------------------------------- C36
\* await initialize_user_reminders() on a constructed service, up to the await of its
\* read; svc = "installing" while the call is suspended there.
InitializeBegin ==
    /\ svc = "new"
    /\ recon' = GetAllUsersWithReminders(db)
    /\ svc' = "installing"
    /\ UNCHANGED busVars
    /\ UNCHANGED <<db, active_jobs, jobs, installed, reqs>>
    /\ UNCHANGED histVars
    /\ UNCHANGED fireVars

\* The rest of the call: the loop over the rows read, on the registry as it is now.
InitializeEnd ==
    /\ svc = "installing"
    /\ SetReg(InitializeUserReminders(CurrentReg, recon))
    /\ svc' = "new"
    /\ UNCHANGED busVars
    /\ UNCHANGED <<db, recon, reqs>>
    /\ UNCHANGED histVars
    /\ UNCHANGED fireVars

\* A ReminderService over any store whose callers install, remove and reconcile in
\* any order.
NextReconcile ==
    \/ \E u \in Users, t \in CallTimes : SetupCall(u, t)
    \/ \E u \in Users : RemoveCall(u)
    \/ InitializeBegin
    \/ InitializeEnd

SpecReconcile == Init /\ [][NextReconcile]_vars

\* The users the read of the suspended call returned as enabled.
Listed == IF recon.ok THEN {recon.rows[i].user : i \in 1..Len(recon.rows)} ELSE {}
ListedTime(u) == (CHOOSE i \in 1..Len(recon.rows) : recon.rows[i].user = u)
\* User u keeps the registry entry, the triggers and the last installed time.
KeepsJob(u) ==
    /\ (u \in DOMAIN active_jobs') <=> (u \in DOMAIN active_jobs)
    /\ u \in DOMAIN active_jobs => active_jobs'[u] = active_jobs[u]
    /\ JobsOf(jobs', u) = JobsOf(jobs, u)
    /\ installed'[u] = installed[u]

\* The part that concerns the users not returned as enabled: a reconciliation leaves
\* their entries and triggers as they were.
ReconcileLeavesOthersStep ==
    InitializeEnd => \A u \in Users \ Listed : KeepsJob(u)
ReconcileLeavesOthers == [][ReconcileLeavesOthersStep]_vars

\* C36: a run of initialize_user_reminders only installs: a user it read as enabled
\* ends with the job added or replaced, a job that was there is never left removed,
\* and every user it did not read as enabled keeps entry and trigger unchanged.
ReconcileOnlyInstallsStep ==
    InitializeEnd =>
        \A u \in Users :
            IF u \in Listed
            THEN /\ u \in DOMAIN active_jobs => u \in DOMAIN active_jobs'
                 /\ JobsOf(jobs, u) # {} => JobsOf(jobs', u) # {}
                 /\ \A j \in JobsOf(jobs', u) :
                       LET t == recon.rows[ListedTime(u)].time IN
                       j = Job(JobId(u), t[1].val, t[2].val)
            ELSE KeepsJob(u)
ReconcileOnlyInstalls == [][ReconcileOnlyInstallsStep]_vars

====
